---- MODULE Spec2Model ----
(***************************************************************************)
(* A model of BioSim (Andersen0/biosim): the per-species and per-landscape *)
(* parameter tables, the construction of an Island from a map string, the  *)
(* placement of populations and the annual cycle of the island.            *)
(*                                                                         *)
(* Numbers.  The program computes with Python floats.  The model uses      *)
(* fixed-point numbers: a quantity x of the program (a weight, a fodder    *)
(* amount, a parameter, a fitness, a random draw) is the integer x * Unit. *)
(* Ages are plain integers.  Products and quotients round towards minus    *)
(* infinity.  Python's None is the number None, which no quantity takes.   *)
(*                                                                         *)
(* Strings that the program inspects character by character (the island    *)
(* map) are sequences of one-character strings.                            *)
(***************************************************************************)
EXTENDS Integers, Sequences, FiniteSets, TLC

VARIABLES
    param,              \* Herbivore.param and Carnivore.param (class attributes)
    landscape_param,    \* Water/Lowland/Highland/Desert.landscape_param
    map_as_string,      \* the argument of the last Island(...) call
    island_map,         \* Island.island_map: the grid of Cell objects
    animals,            \* the Herbivore and Carnivore objects, by identity
    created,            \* how many animal objects were ever constructed
    year,               \* BioSim._year
    pc,                 \* the position of the running annual_cycle()
    animal_migrating,   \* migration(): the candidates of the current cell still to be handled
    raised,             \* the exception the last call ended with ("none": it returned)
    last_call,          \* the last call made from outside and its arguments
    log,                \* history: the cell methods annual_cycle() has called this year
    hist                \* history: per animal, what this year's cycle did to it

vars == <<param, landscape_param, map_as_string, island_map, animals, created,
          year, pc, animal_migrating, raised, last_call, log, hist>>

-----------------------------------------------------------------------------
(* Bounds of the model.                                                    *)

\* Entries in one custom_parameters dictionary.
MaxDictLen == 2
\* Rows of an input map string.
MaxMapRows == 3
\* Characters in one row of an input map string.
MaxMapCols == 3
\* Animal objects constructed in one behaviour (placed or born).
MaxAnimals == 3
\* Annual cycles started in one behaviour.
MaxYears == 2
\* Individuals in one placement call.
MaxPlaced == 2

-----------------------------------------------------------------------------
(* Fixed-point arithmetic.                                                 *)

Unit == 10 * 10 * 10

None == 0 - (Unit * Unit)

Mul(a, b) == (a * b) \div Unit

Div(a, b) == (a * Unit) \div b

Min(a, b) == IF a <= b THEN a ELSE b

Max(a, b) == IF a >= b THEN a ELSE b

Range(s) == {s[i] : i \in DOMAIN s}

-----------------------------------------------------------------------------
(* The parameter tables.                                                   *)

FaunaClasses == {"Herbivore", "Carnivore"}

LandscapeClasses == {"Water", "Lowland", "Highland", "Desert"}

Herbivore_param ==
    [w_birth |-> 8 * Unit, sigma_birth |-> 1500, beta |-> 900, eta |-> 50,
     a_half |-> 40 * Unit, phi_age |-> 600, w_half |-> 10 * Unit,
     phi_weight |-> 100, mu |-> 250, gamma |-> 200, zeta |-> 3500,
     xi |-> 1200, omega |-> 400, F |-> 10 * Unit]

Carnivore_param ==
    [w_birth |-> 6 * Unit, sigma_birth |-> 1 * Unit, beta |-> 750, eta |-> 125,
     a_half |-> 40 * Unit, phi_age |-> 300, w_half |-> 4 * Unit,
     phi_weight |-> 400, mu |-> 400, gamma |-> 800, zeta |-> 3500,
     xi |-> 1100, omega |-> 800, F |-> 50 * Unit, DeltaPhiMax |-> 10 * Unit]

DefaultParam ==
    [cls \in FaunaClasses |->
        IF cls = "Herbivore" THEN Herbivore_param ELSE Carnivore_param]

DefaultLandscapeParam ==
    [cls \in LandscapeClasses |->
        [f_max |-> CASE cls = "Water" -> 0
                     [] cls = "Lowland" -> 800 * Unit
                     [] cls = "Highland" -> 300 * Unit
                     [] cls = "Desert" -> 0]]

\* The custom_parameters dictionaries with at most n of the given entries
\* (key, value), in insertion order, the keys distinct.
Dicts(entries, n) ==
    {d \in UNION {[1..k -> entries] : k \in 0..n} :
        \A i, j \in DOMAIN d : i # j => d[i][1] # d[j][1]}

\* FaunaEntryError without the test eta > 1.
FaunaEntryError_NoEtaCheck(table, key, value) ==
    IF key \notin DOMAIN table THEN "ValueError"
    ELSE IF value < 0 THEN "ValueError"
    ELSE IF value <= 0 /\ key = "DeltaPhiMax" THEN "ValueError"
    ELSE "none"

\* Fauna.set_parameters, the if/elif chain of the first loop for one entry:
\* the exception it raises, or "none" when the entry is stored.
FaunaEntryError(table, key, value) ==
    IF key \notin DOMAIN table THEN "ValueError"
    ELSE IF value < 0 THEN "ValueError"
    ELSE IF value <= 0 /\ key = "DeltaPhiMax" THEN "ValueError"
    ELSE IF value > Unit /\ key = "eta" THEN "ValueError"
    ELSE "none"

\* Fauna.set_parameters, first loop from entry i on.
RECURSIVE FaunaFirstLoop(_, _, _)
FaunaFirstLoop(table, custom_parameters, i) ==
    IF i > Len(custom_parameters) THEN [table |-> table, raised |-> "none"]
    ELSE LET key == custom_parameters[i][1]
             value == custom_parameters[i][2]
             err == FaunaEntryError(table, key, value)
         IN  IF err # "none" THEN [table |-> table, raised |-> err]
             ELSE FaunaFirstLoop([table EXCEPT ![key] = value], custom_parameters, i + 1)

\* Fauna.set_parameters, second loop from entry i on.
RECURSIVE FaunaSecondLoop(_, _, _)
FaunaSecondLoop(table, custom_parameters, i) ==
    IF i > Len(custom_parameters) THEN [table |-> table, raised |-> "none"]
    ELSE LET key == custom_parameters[i][1]
             value == custom_parameters[i][2]
         IN  IF key \notin DOMAIN table THEN [table |-> table, raised |-> "KeyError"]
             ELSE IF value < 0 THEN [table |-> table, raised |-> "ValueError"]
             ELSE FaunaSecondLoop([table EXCEPT ![key] = value], custom_parameters, i + 1)

\* Fauna.set_parameters on the table of one class: the table it leaves and
\* the exception it ends with.
FaunaSetTable(table, custom_parameters) ==
    LET first == FaunaFirstLoop(table, custom_parameters, 1)
    IN  IF first.raised # "none" THEN first
        ELSE FaunaSecondLoop(first.table, custom_parameters, 1)

\* Cell.set_parameters from entry i on.
RECURSIVE CellSetTable(_, _, _)
CellSetTable(table, custom_parameters, i) ==
    IF i > Len(custom_parameters) THEN [table |-> table, raised |-> "none"]
    ELSE LET key == custom_parameters[i][1]
             value == custom_parameters[i][2]
         IN  IF key \notin {"f_max"} THEN [table |-> table, raised |-> "ValueError"]
             ELSE IF value < 0 THEN [table |-> table, raised |-> "ValueError"]
             ELSE CellSetTable([table EXCEPT ![key] = value], custom_parameters, i + 1)

-----------------------------------------------------------------------------
(* Fitness.                                                                *)

\* math.exp raises OverflowError when its argument exceeds about 709.78.
ExpOverflows(x) == x > 709 * Unit + 782

\* 1 / (1 + exp(-z)) for z >= 0, by a piecewise linear approximation that is
\* monotone and reaches 1 (as the float does for large z).
LogisticNonNeg(z) ==
    IF z >= 5 * Unit THEN Unit
    ELSE IF z >= 2375 THEN (z \div 32) + 844
    ELSE IF z >= Unit THEN (z \div 8) + 625
    ELSE (z \div 4) + 500

\* 1 / (1 + m.exp(x))
InvOnePlusExp(x) ==
    IF x >= 0 THEN Unit - LogisticNonNeg(x) ELSE LogisticNonNeg(0 - x)

\* The arguments of the two m.exp calls of get_fitness.
QPosArg(p, age) == Mul(p.phi_age, age * Unit - p.a_half)

QNegArg(p, weight) == Mul(0 - p.phi_weight, weight - p.w_half)

\* Fauna.get_fitness: whether it raises OverflowError (both exponentials are
\* computed before the weight is looked at).
GetFitnessRaises(p, age, weight) ==
    ExpOverflows(QPosArg(p, age)) \/ ExpOverflows(QNegArg(p, weight))

\* Fauna.get_fitness: the value it stores in self.fitness and returns.
GetFitness(p, age, weight) ==
    IF weight <= 0 THEN 0
    ELSE Mul(InvOnePlusExp(QPosArg(p, age)), InvOnePlusExp(QNegArg(p, weight)))

-----------------------------------------------------------------------------
(* Strings.                                                                *)

\* str.split(sep) for a one-character separator: never an empty list.
RECURSIVE Split(_, _)
Split(s, sep) ==
    IF \A i \in DOMAIN s : s[i] # sep THEN <<s>>
    ELSE LET k == CHOOSE i \in DOMAIN s :
                      s[i] = sep /\ \A j \in 1..(i - 1) : s[j] # sep
         IN  <<SubSeq(s, 1, k - 1)>> \o Split(SubSeq(s, k + 1, Len(s)), sep)

\* sep.join(rows)
RECURSIVE Join(_, _)
Join(rows, sep) ==
    IF Len(rows) = 0 THEN <<>>
    ELSE IF Len(rows) = 1 THEN rows[1]
    ELSE rows[1] \o <<sep>> \o Join(Tail(rows), sep)

\* The number of leading blanks of a line.
RECURSIVE LeadingBlanks(_)
LeadingBlanks(line) ==
    IF Len(line) = 0 \/ line[1] # " " THEN 0 ELSE 1 + LeadingBlanks(Tail(line))

\* str.strip()
RECURSIVE Strip(_)
Strip(line) ==
    IF Len(line) = 0 THEN line
    ELSE IF line[1] = " " THEN Strip(Tail(line))
    ELSE IF line[Len(line)] = " " THEN Strip(SubSeq(line, 1, Len(line) - 1))
    ELSE line

IsBlank(line) == \A i \in DOMAIN line : line[i] = " "

\* textwrap.dedent, on the lines of the text: a line of blanks only becomes
\* empty, and the blanks that all other lines start with are removed.
Dedent(lines) ==
    LET solid == {i \in DOMAIN lines : ~IsBlank(lines[i])}
        margin == IF solid = {} THEN 0
                  ELSE CHOOSE n \in {LeadingBlanks(lines[i]) : i \in solid} :
                           \A i \in solid : n <= LeadingBlanks(lines[i])
    IN  [i \in DOMAIN lines |->
            IF IsBlank(lines[i]) THEN <<>>
            ELSE SubSeq(lines[i], margin + 1, Len(lines[i]))]

-----------------------------------------------------------------------------
(* Cells and the island.                                                   *)

LandscapeClass(char) ==
    CASE char = "W" -> "Water"
      [] char = "L" -> "Lowland"
      [] char = "H" -> "Highland"
      [] char = "D" -> "Desert"

Species == {"Herbivore", "Carnivore"}

NoCount == [Herbivore |-> 0, Carnivore |-> 0]

\* Water(), Lowland(), Highland(), Desert(): a new cell object.
NewCell(char) ==
    [landscape |-> char,
     hospitable |-> (char # "W"),
     pop_herbivores |-> <<>>,
     pop_carnivores |-> <<>>,
     num_newborns |-> NoCount,
     num_deaths |-> NoCount,
     fodder |-> landscape_param[LandscapeClass(char)].f_max]

\* No Island object (none constructed, or the constructor raised).
NoIsland == [rows |-> 0, cols |-> 0, cell |-> <<>>]

\* Island.check_input_map_string, second loop (first and last character of
\* each row) from row i on: the exception it raises, or "none".
RECURSIVE CheckRowEnds(_, _)
CheckRowEnds(rows, i) ==
    IF i > Len(rows) THEN "none"
    ELSE IF Len(rows[i]) = 0 THEN "IndexError"
    ELSE IF rows[i][1] # "W" THEN "ValueError"
    ELSE IF rows[i][Len(rows[i])] # "W" THEN "ValueError"
    ELSE CheckRowEnds(rows, i + 1)

\* Island.check_input_map_string: the exception it raises, or "none".
check_input_map_string(rows) ==
    IF \E ch \in Range(rows[1] \o rows[Len(rows)]) : ch # "W" THEN "ValueError"
    ELSE IF CheckRowEnds(rows, 1) # "none" THEN CheckRowEnds(rows, 1)
    ELSE IF \E i \in DOMAIN rows : Len(rows[i]) # Len(rows[1]) THEN "ValueError"
    ELSE "none"

\* Island.creating_map: the island it builds and the exception it ends with.
creating_map(text) ==
    LET split_map == Dedent(Split(text, "\n"))
        err == check_input_map_string(split_map)
        reformat_map == [i \in DOMAIN split_map |-> Strip(split_map[i])]
        rows == Len(split_map)
        cols == Len(reformat_map[1])
    IN  IF err # "none" THEN [island |-> NoIsland, raised |-> err]
        ELSE IF \E n \in DOMAIN reformat_map : Len(reformat_map[n]) > cols
             THEN [island |-> NoIsland, raised |-> "IndexError"]
        ELSE IF \E n \in DOMAIN reformat_map :
                    \E ch \in Range(reformat_map[n]) : ch \notin {"W", "L", "H", "D"}
             THEN [island |-> NoIsland, raised |-> "ValueError"]
        ELSE [island |->
                 [rows |-> rows, cols |-> cols,
                  cell |-> [loc \in (0..(rows - 1)) \X (0..(cols - 1)) |->
                               NewCell(reformat_map[loc[1] + 1][loc[2] + 1])]],
              raised |-> "none"]

\* The characters of the input maps, and the input maps.
MapChars == {"W", "L", "T", " "}

MapRows == UNION {[1..n -> MapChars] : n \in 0..MaxMapCols}

\* The rows of the input maps; the map string is "\n".join(rows).
MapRowLists == UNION {[1..n -> MapRows] : n \in 1..MaxMapRows}

\* The map of the island the other specifications run on.
StdMap == Join(<<<<"W", "W", "W", "W">>, <<"W", "L", "H", "W">>, <<"W", "W", "W", "W">>>>, "\n")

-----------------------------------------------------------------------------
(* Animals and placement.                                                  *)

\* Herbivore(age, weight), Carnivore(age, weight): a new animal object.
NewAnimal(species, age, weight) ==
    [age |-> age, weight |-> weight, fitness |-> None, migrated |-> FALSE,
     species |-> species]

\* What the history keeps for an animal: whether it was there when the
\* running cycle began and its age then, the cell it was in when migration()
\* began, how often this cycle evaluated it as a migration candidate, chose
\* a neighbour for it, found the chosen cell not hospitable, relocated it,
\* aged it and applied weight_loss to it.
NewHist(at_start, age, loc) ==
    [at_start |-> at_start, age0 |-> age, cell0 |-> loc,
     evaluated |-> 0, chosen |-> 0, blocked |-> 0, moved |-> 0,
     aged |-> 0, lost |-> 0, attempts |-> <<>>]

\* The population list of a cell that holds the animals of one species.
PopField(species) ==
    IF species = "Herbivore" THEN "pop_herbivores" ELSE "pop_carnivores"

\* The objects an operation works on: the cells, the animals, the number of
\* animals constructed so far and the history.
World == [cell |-> island_map.cell, animals |-> animals, created |-> created, hist |-> hist]

\* numpy indexing along an axis of length n: a negative index counts from
\* the end, an index outside -n .. n-1 raises IndexError (None here).
NumpyIndex(i, n) ==
    IF i >= n \/ i < 0 - n THEN None ELSE IF i < 0 THEN i + n ELSE i

\* Cell.add_new_population from individual i on: the world it leaves and the
\* exception it ends with.
RECURSIVE add_new_population(_, _, _, _)
add_new_population(w, loc, population, i) ==
    IF i > Len(population) THEN [world |-> w, raised |-> "none"]
    ELSE LET animal == population[i]
             id == w.created + 1
         IN  IF animal.species \in Species
             THEN add_new_population(
                      [w EXCEPT !.cell[loc][PopField(animal.species)] = Append(@, id),
                                !.animals = @ @@ (id :> NewAnimal(animal.species, animal.age, animal.weight)),
                                !.created = id,
                                !.hist = @ @@ (id :> NewHist(FALSE, animal.age, loc))],
                      loc, population, i + 1)
             ELSE [world |-> w, raised |-> "ValueError"]

\* Island.place_populations_on_island from entry i on.
RECURSIVE place_populations_on_island(_, _, _)
place_populations_on_island(w, population_list, i) ==
    IF i > Len(population_list) THEN [world |-> w, raised |-> "none"]
    ELSE LET cell_location == population_list[i]
             row == NumpyIndex(cell_location.loc[1] - 1, island_map.rows)
             col == NumpyIndex(cell_location.loc[2] - 1, island_map.cols)
         IN  IF row = None \/ col = None THEN [world |-> w, raised |-> "IndexError"]
             ELSE LET r == add_new_population(w, <<row, col>>, cell_location.pop, 1)
                  IN  IF r.raised # "none" THEN r
                      ELSE place_populations_on_island(r.world, population_list, i + 1)

\* The table an animal object reads as self.param, and the one a cell object
\* reads as self.landscape_param: the attribute of its class.
AnimalParam(a) == param[animals[a].species]

CellParam(loc) == landscape_param[LandscapeClass(island_map.cell[loc].landscape)]

-----------------------------------------------------------------------------
(* Random draws.                                                           *)

\* The values random.random() returns: numbers in [0, 1).
RandomDraws == {0, Unit - 1}

\* The values random.gauss(mu, sigma) returns.
GaussDraws(mu, sigma) == {mu - sigma, mu + sigma}

\* random.shuffle(population): the orders it can leave.
Shuffles(population) ==
    {p \in [1..Len(population) -> Range(population)] :
        \A i, j \in 1..Len(population) : i # j => p[i] # p[j]}

-----------------------------------------------------------------------------
(* The methods of Fauna, Herbivore and Carnivore on the animal objects.    *)
(* an is the map from the animal objects to their attributes.              *)

ParamOf(an, a) == param[an[a].species]

\* a.get_fitness(): the value, and the objects with it stored in a.fitness.
FitnessOf(an, a) == GetFitness(ParamOf(an, a), an[a].age, an[a].weight)

WithFitness(an, a) == [an EXCEPT ![a] = [an[a] EXCEPT !.fitness = FitnessOf(an, a)]]

\* Cell.sort_by_fitness, its get_fitness() loops from position i on.
RECURSIVE StoreFitness(_, _, _)
StoreFitness(an, population, i) ==
    IF i > Len(population) THEN an
    ELSE StoreFitness(WithFitness(an, population[i]), population, i + 1)

\* Leaves out the objects no list refers to any more.
Without(f, gone) == [x \in (DOMAIN f) \ gone |-> f[x]]

\* Cell.sort_by_fitness without the sort.
SortByFitness_Unsorted(an, population, reverse) == population

\* Cell.sort_by_fitness: list.sort by the stored fitness, stable, also with
\* reverse = True.
SortByFitness(an, population, reverse) ==
    LET pos(a) == CHOOSE i \in DOMAIN population : population[i] = a
        before(x, y) ==
            \/ (IF reverse THEN an[x].fitness > an[y].fitness
                           ELSE an[x].fitness < an[y].fitness)
            \/ (an[x].fitness = an[y].fitness /\ pos(x) < pos(y))
    IN  IF Len(population) = 0 THEN population
        ELSE CHOOSE p \in Shuffles(population) :
                 \A i, j \in DOMAIN p : i < j => before(p[i], p[j])

\* HerbivoresEatFrom where a herbivore that finds less than F eats nothing.
RECURSIVE HerbivoresEatFrom_AllOrNothing(_, _, _, _)
HerbivoresEatFrom_AllOrNothing(an, fodder, order, i) ==
    IF i > Len(order) THEN [animals |-> an, fodder |-> fodder]
    ELSE LET a == order[i]
             p == ParamOf(an, a)
         IN  IF fodder >= p.F
             THEN HerbivoresEatFrom_AllOrNothing(
                      [an EXCEPT ![a] = [an[a] EXCEPT !.weight = @ + Mul(p.beta, p.F)]],
                      fodder - p.F, order, i + 1)
             ELSE [animals |-> an, fodder |-> fodder]

\* Cell.herbivores_eating, the loop from position i of the shuffled list on.
RECURSIVE HerbivoresEatFrom(_, _, _, _)
HerbivoresEatFrom(an, fodder, order, i) ==
    IF i > Len(order) THEN [animals |-> an, fodder |-> fodder]
    ELSE LET a == order[i]
             p == ParamOf(an, a)
         IN  IF fodder >= p.F
             THEN HerbivoresEatFrom([an EXCEPT ![a] = [an[a] EXCEPT !.weight = @ + Mul(p.beta, p.F)]],
                                    fodder - p.F, order, i + 1)
             ELSE [animals |-> [an EXCEPT ![a] = [an[a] EXCEPT !.weight = @ + Mul(p.beta, fodder)]],
                   fodder |-> 0]

\* eating_or_not without the test of fitness <= herbivore_fitness.
EatingOrNot_NoFitnessTest(fitness, herbivore_fitness, DeltaPhiMax) ==
    IF 0 < fitness /\ fitness < DeltaPhiMax
    THEN {~(Div(fitness - herbivore_fitness, DeltaPhiMax) < eat_threshold) :
             eat_threshold \in RandomDraws}
    ELSE {TRUE}

\* Carnivore.eating_or_not, after both fitnesses are recomputed: the answers
\* the draw can give.
EatingOrNot(fitness, herbivore_fitness, DeltaPhiMax) ==
    IF fitness <= herbivore_fitness THEN {FALSE}
    ELSE IF 0 < fitness /\ fitness < DeltaPhiMax
         THEN {~(Div(fitness - herbivore_fitness, DeltaPhiMax) < eat_threshold) :
                  eat_threshold \in RandomDraws}
         ELSE {TRUE}

\* Carnivore.eat of carnivore c, the loop from position i of the herbivore
\* list on: the outcomes [animals, eaten, attempts] the draws can give,
\* attempts the calls of eating_or_not in the order they are made, each with
\* the two fitnesses it compared and its answer.
RECURSIVE EatFrom(_, _, _, _, _, _)
EatFrom(an, c, population_herbivores, i, tot_eaten_weight, eaten) ==
    IF i > Len(population_herbivores)
    THEN {[animals |-> an, eaten |-> eaten, attempts |-> <<>>]}
    ELSE LET herbi == population_herbivores[i]
             an1 == WithFitness(WithFitness(an, c), herbi)
             p == ParamOf(an, c)
             tot == tot_eaten_weight + an1[herbi].weight
             an2 == [an1 EXCEPT ![c] = [an1[c] EXCEPT !.weight = @ + Mul(p.beta, an1[herbi].weight)]]
             attempt(eats) == [carnivore |-> c, herbivore |-> herbi,
                               fitness |-> an1[c].fitness,
                               herbivore_fitness |-> an1[herbi].fitness,
                               eats |-> eats]
             After(eats, rest) == {[r EXCEPT !.attempts = <<attempt(eats)>> \o @] : r \in rest}
         IN  UNION {After(eats,
                          IF eats
                          THEN IF tot < p.F
                               THEN EatFrom(an2, c, population_herbivores, i + 1, tot,
                                            eaten \cup {herbi})
                               ELSE {[animals |-> an2, eaten |-> eaten \cup {herbi},
                                      attempts |-> <<>>]}
                          ELSE EatFrom(an1, c, population_herbivores, i + 1,
                                       tot_eaten_weight, eaten)) :
                    eats \in EatingOrNot(an1[c].fitness, an1[herbi].fitness, p.DeltaPhiMax)}

\* Carnivore.eat: the outcomes [animals, herbivores, attempts], herbivores
\* the list without the eaten ones.
Eat(an, c, population_herbivores) ==
    {[animals |-> r.animals,
      herbivores |-> SelectSeq(population_herbivores, LAMBDA h : h \notin r.eaten),
      attempts |-> r.attempts] :
        r \in EatFrom(an, c, population_herbivores, 1, 0, {})}

\* Cell.carnivores_eating, the loop from carnivore j on.
RECURSIVE CarnivoresEatFrom(_, _, _, _)
CarnivoresEatFrom(an, carnivores, j, herbivores) ==
    IF j > Len(carnivores)
    THEN {[animals |-> an, herbivores |-> herbivores, attempts |-> <<>>]}
    ELSE UNION {{[later EXCEPT !.attempts = r.attempts \o @] :
                    later \in CarnivoresEatFrom(r.animals, carnivores, j + 1, r.herbivores)} :
                   r \in Eat(an, carnivores[j], herbivores)}

\* Birth without the test of num_animals <= 1.
Birth_NoLonelyCheck(an, a, num_animals) ==
    LET p == ParamOf(an, a)
        an1 == WithFitness(an, a)
        birth_probability == Min(Unit, Mul(p.gamma, an1[a].fitness) * (num_animals - 1))
    IN  IF an[a].weight < Mul(p.zeta, p.w_birth + p.sigma_birth)
        THEN {[animals |-> an, child |-> None]}
        ELSE UNION {IF birth_probability >= birth_threshold
                    THEN {IF an1[a].weight < Mul(p.xi, child_weight)
                          THEN [animals |-> an1, child |-> None]
                          ELSE [animals |-> [an1 EXCEPT ![a] = [an1[a] EXCEPT !.weight = @ - Mul(p.xi, child_weight)]],
                                child |-> child_weight] :
                             child_weight \in GaussDraws(p.w_birth, p.sigma_birth)}
                    ELSE {[animals |-> an1, child |-> None]} :
                    birth_threshold \in RandomDraws}

\* Birth without the test of weight < xi * child_weight.
Birth_NoXiCheck(an, a, num_animals) ==
    LET p == ParamOf(an, a)
        an1 == WithFitness(an, a)
        birth_probability == Min(Unit, Mul(p.gamma, an1[a].fitness) * (num_animals - 1))
    IN  IF num_animals <= 1 THEN {[animals |-> an, child |-> None]}
        ELSE IF an[a].weight < Mul(p.zeta, p.w_birth + p.sigma_birth)
             THEN {[animals |-> an, child |-> None]}
        ELSE UNION {IF birth_probability >= birth_threshold
                    THEN {[animals |-> [an1 EXCEPT ![a] = [an1[a] EXCEPT !.weight = @ - Mul(p.xi, child_weight)]],
                           child |-> child_weight] :
                             child_weight \in GaussDraws(p.w_birth, p.sigma_birth)}
                    ELSE {[animals |-> an1, child |-> None]} :
                    birth_threshold \in RandomDraws}

\* Fauna.birth(num_animals) of animal a: the outcomes [animals, child], child
\* the weight returned or None.
Birth(an, a, num_animals) ==
    LET p == ParamOf(an, a)
        an1 == WithFitness(an, a)
        birth_probability == Min(Unit, Mul(p.gamma, an1[a].fitness) * (num_animals - 1))
    IN  IF num_animals <= 1 THEN {[animals |-> an, child |-> None]}
        ELSE IF an[a].weight < Mul(p.zeta, p.w_birth + p.sigma_birth)
             THEN {[animals |-> an, child |-> None]}
        ELSE UNION {IF birth_probability >= birth_threshold
                    THEN {IF an1[a].weight < Mul(p.xi, child_weight)
                          THEN [animals |-> an1, child |-> None]
                          ELSE [animals |-> [an1 EXCEPT ![a] = [an1[a] EXCEPT !.weight = @ - Mul(p.xi, child_weight)]],
                                child |-> child_weight] :
                             child_weight \in GaussDraws(p.w_birth, p.sigma_birth)}
                    ELSE {[animals |-> an1, child |-> None]} :
                    birth_threshold \in RandomDraws}

\* ProcreationFrom handing birth() the number of animals of both species.
RECURSIVE ProcreationFrom_CountAllAnimals(_, _, _, _)
ProcreationFrom_CountAllAnimals(an, population, i, newborns) ==
    IF i > Len(population) THEN {[animals |-> an, newborns |-> newborns]}
    ELSE UNION {ProcreationFrom_CountAllAnimals(r.animals, population, i + 1,
                                                IF r.child = None THEN newborns
                                                ELSE Append(newborns, r.child)) :
                   r \in Birth(an, population[i], Cardinality(DOMAIN an))}

\* Cell.procreation_herbivore / procreation_carnivore, the loop from position
\* i of the population on: the outcomes [animals, newborns], newborns the
\* weights of all_newborn_* in order.
RECURSIVE ProcreationFrom(_, _, _, _)
ProcreationFrom(an, population, i, newborns) ==
    IF i > Len(population) THEN {[animals |-> an, newborns |-> newborns]}
    ELSE UNION {ProcreationFrom(r.animals, population, i + 1,
                                IF r.child = None THEN newborns
                                ELSE Append(newborns, r.child)) :
                   r \in Birth(an, population[i], Len(population))}

\* MigratingFrom without the test of animal.migrated.
RECURSIVE MigratingFrom_IgnoreFlag(_, _, _, _, _)
MigratingFrom_IgnoreFlag(an, population, i, migrating, evaluated) ==
    IF i > Len(population)
    THEN {[animals |-> an, migrating |-> migrating, evaluated |-> evaluated]}
    ELSE LET a == population[i]
             an1 == WithFitness(an, a)
             migrating_probability == Mul(ParamOf(an, a).mu, an1[a].fitness)
         IN  UNION {MigratingFrom_IgnoreFlag(an1, population, i + 1,
                                             IF migrating_probability > migrating_threshold
                                             THEN Append(migrating, a) ELSE migrating,
                                             evaluated \cup {a}) :
                       migrating_threshold \in RandomDraws}

\* MigratingFrom selecting an animal also when mu * fitness equals the draw.
RECURSIVE MigratingFrom_AtLeast(_, _, _, _, _)
MigratingFrom_AtLeast(an, population, i, migrating, evaluated) ==
    IF i > Len(population)
    THEN {[animals |-> an, migrating |-> migrating, evaluated |-> evaluated]}
    ELSE LET a == population[i]
             an1 == WithFitness(an, a)
             migrating_probability == Mul(ParamOf(an, a).mu, an1[a].fitness)
         IN  IF an[a].migrated = FALSE
             THEN UNION {MigratingFrom_AtLeast(an1, population, i + 1,
                                               IF migrating_probability >= migrating_threshold
                                               THEN Append(migrating, a) ELSE migrating,
                                               evaluated \cup {a}) :
                            migrating_threshold \in RandomDraws}
             ELSE MigratingFrom_AtLeast(an, population, i + 1, migrating, evaluated)

\* MigratingFrom reading animal.fitness as it was last stored.
RECURSIVE MigratingFrom_StoredFitness(_, _, _, _, _)
MigratingFrom_StoredFitness(an, population, i, migrating, evaluated) ==
    IF i > Len(population)
    THEN {[animals |-> an, migrating |-> migrating, evaluated |-> evaluated]}
    ELSE LET a == population[i]
             migrating_probability == Mul(ParamOf(an, a).mu, an[a].fitness)
         IN  IF an[a].migrated = FALSE
             THEN UNION {MigratingFrom_StoredFitness(an, population, i + 1,
                                                     IF migrating_probability > migrating_threshold
                                                     THEN Append(migrating, a) ELSE migrating,
                                                     evaluated \cup {a}) :
                            migrating_threshold \in RandomDraws}
             ELSE MigratingFrom_StoredFitness(an, population, i + 1, migrating, evaluated)

\* Cell.migrating_or_not, the loop from position i of population_in_cell()
\* on: the outcomes [animals, migrating, evaluated].
RECURSIVE MigratingFrom(_, _, _, _, _)
MigratingFrom(an, population, i, migrating, evaluated) ==
    IF i > Len(population)
    THEN {[animals |-> an, migrating |-> migrating, evaluated |-> evaluated]}
    ELSE LET a == population[i]
             an1 == WithFitness(an, a)
             migrating_probability == Mul(ParamOf(an, a).mu, an1[a].fitness)
         IN  IF an[a].migrated = FALSE
             THEN UNION {MigratingFrom(an1, population, i + 1,
                                       IF migrating_probability > migrating_threshold
                                       THEN Append(migrating, a) ELSE migrating,
                                       evaluated \cup {a}) :
                            migrating_threshold \in RandomDraws}
             ELSE MigratingFrom(an, population, i + 1, migrating, evaluated)

\* Death without the test of weight <= 0.
Death_ByDrawOnly(an, a) ==
    LET death_probability == Mul(ParamOf(an, a).omega, Unit - FitnessOf(an, a))
    IN  {IF death_probability = 0 THEN FALSE
         ELSE death_threshold <= death_probability :
            death_threshold \in RandomDraws}

\* Fauna.death() of animal a: the answers the draw can give.
Death(an, a) ==
    LET death_probability == Mul(ParamOf(an, a).omega, Unit - FitnessOf(an, a))
    IN  IF an[a].weight <= 0 THEN {TRUE}
        ELSE {IF death_probability = 0 THEN FALSE
              ELSE death_threshold <= death_probability :
                 death_threshold \in RandomDraws}

\* Cell.yearly_death, the first loop from position i of the population on:
\* the outcomes [animals, dead].
RECURSIVE DeathFrom(_, _, _, _)
DeathFrom(an, population, i, dead) ==
    IF i > Len(population) THEN {[animals |-> an, dead |-> dead]}
    ELSE LET a == population[i]
             an1 == WithFitness(an, a)
         IN  UNION {DeathFrom(an1, population, i + 1,
                              IF dies THEN dead \cup {a} ELSE dead) :
                       dies \in Death(an1, a)}

-----------------------------------------------------------------------------
(* Initial states and the calls made from outside.                         *)

Idle == [phase |-> "idle", cell |-> 0, step |-> 0]

NoLog ==
    [calls |-> <<>>, migration |-> "not_started",
     count0 |-> [Herbivore |-> 0, Carnivore |-> 0], eaten |-> 0]

\* The program before any Island is constructed.
InitMap ==
    /\ param = DefaultParam
    /\ landscape_param = DefaultLandscapeParam
    /\ map_as_string = <<>>
    /\ island_map = NoIsland
    /\ animals = <<>>
    /\ created = 0
    /\ year = 0
    /\ pc = Idle
    /\ animal_migrating = <<>>
    /\ raised = "none"
    /\ last_call = [op |-> "none"]
    /\ log = NoLog
    /\ hist = <<>>

\* Island(map_as_string)
Island_init(text) ==
    LET r == creating_map(text)
    IN  /\ map_as_string' = text
        /\ island_map' = r.island
        /\ raised' = r.raised
        /\ last_call' = [op |-> "Island"]
        /\ UNCHANGED <<param, landscape_param, animals, created, year, pc,
                       animal_migrating, log, hist>>

\* One Island is constructed in a behaviour.
NextMap ==
    /\ last_call.op = "none"
    /\ \E rows \in MapRowLists : Island_init(Join(rows, "\n"))

SpecMap == InitMap /\ [][NextMap]_vars

\* An island on StdMap with one herbivore and one carnivore in its Lowland cell.
InitParams ==
    LET island == creating_map(StdMap).island
        w0 == [cell |-> island.cell, animals |-> <<>>, created |-> 0, hist |-> <<>>]
        pop == <<[species |-> "Herbivore", age |-> 5, weight |-> 20 * Unit],
                 [species |-> "Carnivore", age |-> 5, weight |-> 20 * Unit]>>
        w == add_new_population(w0, <<1, 1>>, pop, 1).world
    IN  /\ param = DefaultParam
        /\ landscape_param = DefaultLandscapeParam
        /\ map_as_string = StdMap
        /\ island_map = [island EXCEPT !.cell = w.cell]
        /\ animals = w.animals
        /\ created = w.created
        /\ year = 0
        /\ pc = Idle
        /\ animal_migrating = <<>>
        /\ raised = "none"
        /\ last_call = [op |-> "none"]
        /\ log = NoLog
        /\ hist = w.hist

\* The entries of the custom_parameters given to Fauna.set_parameters: eta
\* and DeltaPhiMax at and around the limits the code tests, and a key no
\* table has.
FaunaInputEntries ==
    {<<"eta", 0 - 1>>, <<"eta", 0>>, <<"eta", Unit>>, <<"eta", Unit + 1>>,
     <<"DeltaPhiMax", 0>>, <<"DeltaPhiMax", Unit>>, <<"lambda", Unit>>}

\* The entries of the custom_parameters given to Cell.set_parameters.
CellInputEntries ==
    {<<"f_max", 0 - 1>>, <<"f_max", 0>>, <<"f_max", 2 * Unit>>, <<"f_min", Unit>>}

\* The landscape classes whose set_parameters is called.
CellInputClasses == {"Water", "Lowland"}

FaunaInputDicts == Dicts(FaunaInputEntries, MaxDictLen)

CellInputDicts == Dicts(CellInputEntries, MaxDictLen)

\* Fauna_set_parameters storing into one table shared by all species.
Fauna_set_parameters_AllClasses(cls, custom_parameters) ==
    LET r == FaunaSetTable(param[cls], custom_parameters)
    IN  /\ param' = [c \in FaunaClasses |-> FaunaSetTable(param[c], custom_parameters).table]
        /\ raised' = r.raised
        /\ last_call' = [op |-> "set_parameters", cls |-> cls, arg |-> custom_parameters]
        /\ UNCHANGED <<landscape_param, map_as_string, island_map, animals, created,
                       year, pc, animal_migrating, log, hist>>

\* Herbivore.set_parameters(custom_parameters), Carnivore.set_parameters(...)
Fauna_set_parameters(cls, custom_parameters) ==
    LET r == FaunaSetTable(param[cls], custom_parameters)
    IN  /\ param' = [param EXCEPT ![cls] = r.table]
        /\ raised' = r.raised
        /\ last_call' = [op |-> "set_parameters", cls |-> cls, arg |-> custom_parameters]
        /\ UNCHANGED <<landscape_param, map_as_string, island_map, animals, created,
                       year, pc, animal_migrating, log, hist>>

\* Water.set_parameters(custom_parameters), Lowland.set_parameters(...), ...
Cell_set_parameters(cls, custom_parameters) ==
    LET r == CellSetTable(landscape_param[cls], custom_parameters, 1)
    IN  /\ landscape_param' = [landscape_param EXCEPT ![cls] = r.table]
        /\ raised' = r.raised
        /\ last_call' = [op |-> "set_parameters", cls |-> cls, arg |-> custom_parameters]
        /\ UNCHANGED <<param, map_as_string, island_map, animals, created,
                       year, pc, animal_migrating, log, hist>>

NextParams ==
    \/ \E cls \in FaunaClasses :
         \E d \in FaunaInputDicts :
            Fauna_set_parameters(cls, d)
    \/ \E cls \in CellInputClasses :
         \E d \in CellInputDicts :
            Cell_set_parameters(cls, d)

SpecParams == InitParams /\ [][NextParams]_vars

-----------------------------------------------------------------------------
(* The cell methods that move animals between lists.                       *)

\* list.remove(x): without the first occurrence of x.
RemoveFirst(list, x) ==
    LET k == CHOOSE i \in DOMAIN list : list[i] = x /\ \A j \in 1..(i - 1) : list[j] # x
    IN  SubSeq(list, 1, k - 1) \o SubSeq(list, k + 1, Len(list))

\* add_immigrating_animal appending every immigrant to pop_herbivores.
add_immigrating_animal_AlwaysHerbivore(c, an, immigrant) ==
    [cell |-> [c EXCEPT !.pop_herbivores = Append(@, immigrant)], raised |-> "none"]

\* Cell.add_immigrating_animal on cell object c: the cell it leaves and the
\* exception it ends with.
add_immigrating_animal(c, an, immigrant) ==
    IF an[immigrant].species = "Herbivore"
    THEN [cell |-> [c EXCEPT !.pop_herbivores = Append(@, immigrant)], raised |-> "none"]
    ELSE IF an[immigrant].species = "Carnivore"
    THEN [cell |-> [c EXCEPT !.pop_carnivores = Append(@, immigrant)], raised |-> "none"]
    ELSE [cell |-> c, raised |-> "ValueError"]

\* remove_emigrated_animal returning silently when the animal is absent.
remove_emigrated_animal_Silent(c, an, emigrant) ==
    IF an[emigrant].species = "Herbivore" /\ emigrant \in Range(c.pop_herbivores)
    THEN [cell |-> [c EXCEPT !.pop_herbivores = RemoveFirst(@, emigrant)], raised |-> "none"]
    ELSE IF an[emigrant].species = "Carnivore" /\ emigrant \in Range(c.pop_carnivores)
    THEN [cell |-> [c EXCEPT !.pop_carnivores = RemoveFirst(@, emigrant)], raised |-> "none"]
    ELSE [cell |-> c, raised |-> "none"]

\* Cell.remove_emigrated_animal on cell object c.
remove_emigrated_animal(c, an, emigrant) ==
    IF an[emigrant].species = "Herbivore"
    THEN IF emigrant \in Range(c.pop_herbivores)
         THEN [cell |-> [c EXCEPT !.pop_herbivores = RemoveFirst(@, emigrant)], raised |-> "none"]
         ELSE [cell |-> c, raised |-> "ValueError"]
    ELSE IF an[emigrant].species = "Carnivore"
    THEN IF emigrant \in Range(c.pop_carnivores)
         THEN [cell |-> [c EXCEPT !.pop_carnivores = RemoveFirst(@, emigrant)], raised |-> "none"]
         ELSE [cell |-> c, raised |-> "ValueError"]
    ELSE [cell |-> c, raised |-> "ValueError"]

\* Cell.population_in_cell
population_in_cell(c) == c.pop_herbivores \o c.pop_carnivores

\* Island.get_neighbors_to_cell: North, East, South, West.
get_neighbors_to_cell(a_cell) ==
    <<<<a_cell[1] - 1, a_cell[2]>>, <<a_cell[1], a_cell[2] + 1>>,
      <<a_cell[1] + 1, a_cell[2]>>, <<a_cell[1], a_cell[2] - 1>>>>

\* MigrateOne without the test of current_migration_cell.hospitable.
MigrateOne_NoHospitableCheck(cells, an, loc, animal, chosen_cell) ==
    LET row == NumpyIndex(chosen_cell[1], island_map.rows)
        col == NumpyIndex(chosen_cell[2], island_map.cols)
        target == <<row, col>>
        an1 == [an EXCEPT ![animal] = [an[animal] EXCEPT !.migrated = TRUE]]
        added == [cells EXCEPT ![target] = add_immigrating_animal(@, an1, animal).cell]
        removed == remove_emigrated_animal(added[loc], an1, animal)
    IN  IF row = None \/ col = None
        THEN [cell |-> cells, animals |-> an, moved |-> FALSE, raised |-> "IndexError"]
        ELSE [cell |-> [added EXCEPT ![loc] = removed.cell], animals |-> an1,
              moved |-> TRUE, raised |-> removed.raised]

\* Island.migration, the body of the loop over animal_migrating for one
\* animal of cell loc and the neighbour random.choice picked: the cells and
\* animals it leaves, whether it relocated the animal, and the exception.
MigrateOne(cells, an, loc, animal, chosen_cell) ==
    LET row == NumpyIndex(chosen_cell[1], island_map.rows)
        col == NumpyIndex(chosen_cell[2], island_map.cols)
        target == <<row, col>>
        an1 == [an EXCEPT ![animal] = [an[animal] EXCEPT !.migrated = TRUE]]
        added == [cells EXCEPT ![target] = add_immigrating_animal(@, an1, animal).cell]
        removed == remove_emigrated_animal(added[loc], an1, animal)
    IN  IF row = None \/ col = None
        THEN [cell |-> cells, animals |-> an, moved |-> FALSE, raised |-> "IndexError"]
        ELSE IF cells[target].hospitable = TRUE
        THEN [cell |-> [added EXCEPT ![loc] = removed.cell], animals |-> an1,
              moved |-> TRUE, raised |-> removed.raised]
        ELSE [cell |-> cells, animals |-> an, moved |-> FALSE, raised |-> "none"]

\* YearlyAgeing leaving out the animals that migrated this year.
YearlyAgeing_SkipMigrated(an, population) ==
    [a \in DOMAIN an |->
        IF a \in Range(population) /\ ~an[a].migrated
        THEN [an[a] EXCEPT !.age = @ + 1, !.weight = @ - Mul(ParamOf(an, a).eta, @)]
        ELSE an[a]]

\* Cell.yearly_ageing_and_weight_loss: ageing() and weight_loss() of every
\* animal of the population.
YearlyAgeing(an, population) ==
    [a \in DOMAIN an |->
        IF a \in Range(population)
        THEN [an[a] EXCEPT !.age = @ + 1, !.weight = @ - Mul(ParamOf(an, a).eta, @)]
        ELSE an[a]]

\* The animals yearly_ageing_and_weight_loss changes.
Aged(an, population) == {a \in Range(population) : YearlyAgeing(an, population)[a] # an[a]}

-----------------------------------------------------------------------------
(* The annual cycle, one cell method at a time.                            *)

\* annual_cycle_second_loop with yearly_death before the weight loss.
annual_cycle_second_loop_DeathFirst ==
    <<"yearly_death", "yearly_ageing_and_weight_loss", "reset_migrated_parameter",
      "fodder_regrowth">>

\* Island.annual_cycle: the cell methods of its first and of its second loop.
annual_cycle_first_loop ==
    <<"herbivores_eating", "carnivores_eating", "procreation_herbivore",
      "procreation_carnivore">>

annual_cycle_second_loop ==
    <<"yearly_ageing_and_weight_loss", "yearly_death", "reset_migrated_parameter",
      "fodder_regrowth">>

NumCells == island_map.rows * island_map.cols

\* The k-th cell of "for row in self.island_map: for a_cell in row".
CellAt(k) == <<(k - 1) \div island_map.cols, (k - 1) % island_map.cols>>

\* The cell and the method annual_cycle() is about to call.
Here == CellAt(pc.cell)

Method ==
    IF pc.phase = "first_loop" THEN annual_cycle_first_loop[pc.step]
    ELSE IF pc.phase = "second_loop" THEN annual_cycle_second_loop[pc.step]
    ELSE "none"

\* Where annual_cycle() is after the cell method it is about to call.
AfterMethod ==
    IF pc.step < 4 THEN [pc EXCEPT !.step = @ + 1]
    ELSE IF pc.cell < NumCells THEN [pc EXCEPT !.cell = @ + 1, !.step = 1]
    ELSE IF pc.phase = "first_loop" THEN [phase |-> "migration", cell |-> 0, step |-> 0]
    ELSE Idle

\* Where migration() is after a step in cell k with these candidates left.
AfterMigrating(k, left) ==
    IF Len(left) > 0 THEN [phase |-> "migration", cell |-> k, step |-> 2]
    ELSE IF k < NumCells THEN [phase |-> "migration", cell |-> k + 1, step |-> 1]
    ELSE [phase |-> "migration", cell |-> NumCells + 1, step |-> 0]

\* The cell whose lists hold animal a.
CellsOf(a) ==
    {loc \in DOMAIN island_map.cell : a \in Range(population_in_cell(island_map.cell[loc]))}

OnIsland == {a \in DOMAIN animals : CellsOf(a) # {}}

\* The number of animals of a species in the lists of all cells
\* (Island.animal_counter, summed over the cells).
IslandCount(cells, species) ==
    LET field == PopField(species)
        RECURSIVE Sum(_)
        Sum(k) == IF k = 0 THEN 0 ELSE Sum(k - 1) + Len(cells[CellAt(k)][field])
    IN  Sum(NumCells)

\* Island.get_birth_and_death(animal_property): herbivore_tot, carnivore_tot.
get_birth_and_death(cells, animal_property) ==
    LET counter(loc) == IF animal_property = "birth" THEN cells[loc].num_newborns
                        ELSE cells[loc].num_deaths
        RECURSIVE Tot(_, _)
        Tot(k, species) == IF k = 0 THEN 0
                           ELSE Tot(k - 1, species) + counter(CellAt(k))[species]
    IN  <<Tot(NumCells, "Herbivore"), Tot(NumCells, "Carnivore")>>

\* A cell method returns: annual_cycle() goes on. The log keeps the number
\* of herbivores that carnivores_eating took out of the lists.
Returned(name, cells, an, made, h) ==
    /\ island_map' = [island_map EXCEPT !.cell = cells]
    /\ animals' = an
    /\ created' = made
    /\ hist' = h
    /\ log' = [log EXCEPT !.calls[Here] = Append(@, name),
                          !.eaten = IF name = "carnivores_eating"
                                    THEN @ + Cardinality((DOMAIN animals) \ DOMAIN an)
                                    ELSE @]
    /\ pc' = AfterMethod
    /\ UNCHANGED <<param, landscape_param, map_as_string, year, animal_migrating,
                   raised, last_call>>

\* BioSim.simulate: one more year, Island.annual_cycle() is called.
annual_cycle_begin ==
    /\ pc = Idle
    /\ island_map # NoIsland
    /\ year < MaxYears
    /\ year' = year + 1
    /\ pc' = [phase |-> "first_loop", cell |-> 1, step |-> 1]
    /\ raised' = "none"
    /\ last_call' = [op |-> "annual_cycle"]
    /\ log' = [calls |-> [loc \in DOMAIN island_map.cell |-> <<>>],
               migration |-> "not_started",
               count0 |-> [species \in Species |-> IslandCount(island_map.cell, species)],
               eaten |-> 0]
    /\ hist' = [a \in DOMAIN animals |->
                   NewHist(TRUE, animals[a].age, CHOOSE loc \in CellsOf(a) : TRUE)]
    /\ UNCHANGED <<param, landscape_param, map_as_string, island_map, animals,
                   created, animal_migrating>>

herbivores_eating ==
    /\ Method = "herbivores_eating"
    /\ \E order \in Shuffles(island_map.cell[Here].pop_herbivores) :
          LET r == HerbivoresEatFrom(animals, island_map.cell[Here].fodder, order, 1)
          IN  Returned("herbivores_eating",
                       [island_map.cell EXCEPT ![Here].pop_herbivores = order,
                                               ![Here].fodder = r.fodder],
                       r.animals, created, hist)

carnivores_eating ==
    /\ Method = "carnivores_eating"
    /\ LET c == island_map.cell[Here]
           an1 == StoreFitness(animals, population_in_cell(c), 1)
           herbivores == SortByFitness(an1, c.pop_herbivores, FALSE)
           carnivores == SortByFitness(an1, c.pop_carnivores, TRUE)
       IN  \E r \in CarnivoresEatFrom(an1, carnivores, 1, herbivores) :
              LET eaten == Range(herbivores) \ Range(r.herbivores)
                  by(a) == SelectSeq(r.attempts, LAMBDA attempt : attempt.carnivore = a)
              IN  Returned("carnivores_eating",
                           [island_map.cell EXCEPT ![Here].pop_herbivores = r.herbivores,
                                                   ![Here].pop_carnivores = carnivores],
                           Without(r.animals, eaten), created,
                           [a \in (DOMAIN hist) \ eaten |->
                               [hist[a] EXCEPT !.attempts = @ \o by(a)]])

\* The newborn objects of a procreation: their identities follow created.
Newborns(species, weights, loc) ==
    [id \in (created + 1)..(created + Len(weights)) |->
        [animal |-> NewAnimal(species, 0, weights[id - created]),
         hist |-> NewHist(FALSE, 0, loc)]]

\* procreation leaving num_newborns as it was.
procreation_NoCounter(species) ==
    LET field == PopField(species)
        population == island_map.cell[Here][field]
    IN  \E r \in ProcreationFrom(animals, population, 1, <<>>) :
           LET born == Newborns(species, r.newborns, Here)
               ids == [i \in 1..Len(r.newborns) |-> created + i]
           IN  /\ created + Len(r.newborns) <= MaxAnimals
               /\ Returned(IF species = "Herbivore" THEN "procreation_herbivore"
                           ELSE "procreation_carnivore",
                           [island_map.cell EXCEPT ![Here][field] = @ \o ids],
                           r.animals @@ [id \in DOMAIN born |-> born[id].animal],
                           created + Len(r.newborns),
                           hist @@ [id \in DOMAIN born |-> born[id].hist])

\* a_cell.procreation_herbivore(), a_cell.procreation_carnivore()
procreation(species) ==
    LET field == PopField(species)
        population == island_map.cell[Here][field]
    IN  \E r \in ProcreationFrom(animals, population, 1, <<>>) :
           LET born == Newborns(species, r.newborns, Here)
               ids == [i \in 1..Len(r.newborns) |-> created + i]
           IN  /\ created + Len(r.newborns) <= MaxAnimals
               /\ Returned(IF species = "Herbivore" THEN "procreation_herbivore"
                           ELSE "procreation_carnivore",
                           [island_map.cell EXCEPT
                               ![Here][field] = @ \o ids,
                               ![Here].num_newborns[species] = Len(r.newborns)],
                           r.animals @@ [id \in DOMAIN born |-> born[id].animal],
                           created + Len(r.newborns),
                           hist @@ [id \in DOMAIN born |-> born[id].hist])

procreation_herbivore ==
    /\ Method = "procreation_herbivore"
    /\ procreation("Herbivore")

procreation_carnivore ==
    /\ Method = "procreation_carnivore"
    /\ procreation("Carnivore")

\* annual_cycle() calls self.migration().
migration_begin ==
    /\ pc = [phase |-> "migration", cell |-> 0, step |-> 0]
    /\ pc' = [phase |-> "migration", cell |-> 1, step |-> 1]
    /\ log' = [log EXCEPT !.migration = "running"]
    /\ hist' = [a \in DOMAIN hist |->
                   [hist[a] EXCEPT !.cell0 = CHOOSE loc \in CellsOf(a) : TRUE]]
    /\ UNCHANGED <<param, landscape_param, map_as_string, island_map, animals,
                   created, year, animal_migrating, raised, last_call>>

\* migration(): a_cell.migrating_or_not() for the next cell.
migrating_or_not ==
    /\ pc.phase = "migration" /\ pc.step = 1
    /\ \E r \in MigratingFrom(animals, population_in_cell(island_map.cell[Here]), 1, <<>>, {}) :
          /\ animals' = r.animals
          /\ animal_migrating' = r.migrating
          /\ hist' = [a \in DOMAIN hist |->
                         IF a \in r.evaluated
                         THEN [hist[a] EXCEPT !.evaluated = @ + 1] ELSE hist[a]]
          /\ pc' = AfterMigrating(pc.cell, r.migrating)
    /\ UNCHANGED <<param, landscape_param, map_as_string, island_map, created,
                   year, raised, last_call, log>>

\* migration(): the loop body for the next animal of animal_migrating.
migrate_animal ==
    /\ pc.phase = "migration" /\ pc.step = 2
    /\ \E n \in 1..4 :
          LET animal == Head(animal_migrating)
              chosen_cell == get_neighbors_to_cell(Here)[n]
              r == MigrateOne(island_map.cell, animals, Here, animal, chosen_cell)
          IN  /\ island_map' = [island_map EXCEPT !.cell = r.cell]
              /\ animals' = r.animals
              /\ hist' = [hist EXCEPT ![animal].chosen = @ + 1,
                                      ![animal].blocked =
                                          IF ~r.moved /\ r.raised = "none" THEN @ + 1 ELSE @,
                                      ![animal].moved = IF r.moved THEN @ + 1 ELSE @]
              /\ raised' = r.raised
              /\ IF r.raised = "none"
                 THEN /\ animal_migrating' = Tail(animal_migrating)
                      /\ pc' = AfterMigrating(pc.cell, Tail(animal_migrating))
                 ELSE /\ animal_migrating' = <<>>
                      /\ pc' = Idle
    /\ UNCHANGED <<param, landscape_param, map_as_string, created, year, last_call, log>>

\* self.migration() returns to annual_cycle().
migration_return ==
    /\ pc = [phase |-> "migration", cell |-> NumCells + 1, step |-> 0]
    /\ pc' = [phase |-> "second_loop", cell |-> 1, step |-> 1]
    /\ log' = [log EXCEPT !.migration = "finished"]
    /\ UNCHANGED <<param, landscape_param, map_as_string, island_map, animals,
                   created, year, animal_migrating, raised, last_call, hist>>

yearly_ageing_and_weight_loss ==
    /\ Method = "yearly_ageing_and_weight_loss"
    /\ LET population == population_in_cell(island_map.cell[Here])
           changed == Aged(animals, population)
       IN  Returned("yearly_ageing_and_weight_loss", island_map.cell,
                    YearlyAgeing(animals, population), created,
                    [a \in DOMAIN hist |->
                        IF a \in changed
                        THEN [hist[a] EXCEPT !.aged = @ + 1, !.lost = @ + 1]
                        ELSE hist[a]])

yearly_death ==
    /\ Method = "yearly_death"
    /\ LET c == island_map.cell[Here]
       IN  \E r \in DeathFrom(animals, population_in_cell(c), 1, {}) :
              LET alive(a) == a \notin r.dead
                  dead_herbivores == r.dead \cap Range(c.pop_herbivores)
                  dead_carnivores == r.dead \cap Range(c.pop_carnivores)
              IN  Returned("yearly_death",
                           [island_map.cell EXCEPT
                               ![Here].pop_herbivores = SelectSeq(@, alive),
                               ![Here].pop_carnivores = SelectSeq(@, alive),
                               ![Here].num_deaths =
                                   [Herbivore |-> Cardinality(dead_herbivores),
                                    Carnivore |-> Cardinality(dead_carnivores)]],
                           Without(r.animals, r.dead), created, Without(hist, r.dead))

\* reset_migrated_parameter going through pop_herbivores only.
reset_migrated_parameter_HerbivoresOnly ==
    /\ Method = "reset_migrated_parameter"
    /\ Returned("reset_migrated_parameter", island_map.cell,
                [a \in DOMAIN animals |->
                    IF a \in Range(island_map.cell[Here].pop_herbivores)
                    THEN [animals[a] EXCEPT !.migrated = FALSE] ELSE animals[a]],
                created, hist)

reset_migrated_parameter ==
    /\ Method = "reset_migrated_parameter"
    /\ Returned("reset_migrated_parameter", island_map.cell,
                [a \in DOMAIN animals |->
                    IF a \in Range(population_in_cell(island_map.cell[Here]))
                    THEN [animals[a] EXCEPT !.migrated = FALSE] ELSE animals[a]],
                created, hist)

fodder_regrowth ==
    /\ Method = "fodder_regrowth"
    /\ Returned("fodder_regrowth",
                [island_map.cell EXCEPT ![Here].fodder = CellParam(Here).f_max],
                animals, created, hist)

\* The individuals and the cells (as given, counted from 1) of the
\* population lists placed: both species, a species tag the program does
\* not know, a habitable cell of StdMap and a Water cell of its last row.
InputIndividuals ==
    {[species |-> "Herbivore", age |-> 5, weight |-> 40 * Unit],
     [species |-> "Carnivore", age |-> 5, weight |-> 40 * Unit],
     [species |-> "Dog", age |-> 5, weight |-> 20 * Unit]}

InputLocs == {<<2, 2>>, <<3, 3>>}

InputPops == UNION {[1..n -> InputIndividuals] : n \in 1..MaxPlaced}

Individuals(population_list) ==
    IF Len(population_list) = 1 THEN Len(population_list[1].pop)
    ELSE Len(population_list[1].pop) + Len(population_list[2].pop)

InputPopulationLists ==
    {l \in UNION {[1..n -> [loc : InputLocs, pop : InputPops]] : n \in 1..2} :
        Individuals(l) <= MaxPlaced}

\* Whether a population list holds an individual of a species the program
\* does not know.
HasUnknownSpecies(population_list) ==
    \E i \in DOMAIN population_list :
       \E j \in DOMAIN population_list[i].pop :
          population_list[i].pop[j].species \notin Species

\* Island.place_populations_on_island(population_list)
place_populations(population_list) ==
    /\ pc = Idle
    /\ island_map # NoIsland
    /\ created + Individuals(population_list) <= MaxPlaced
    /\ LET r == place_populations_on_island(World, population_list, 1)
       IN  /\ island_map' = [island_map EXCEPT !.cell = r.world.cell]
           /\ animals' = r.world.animals
           /\ created' = r.world.created
           /\ hist' = r.world.hist
           /\ raised' = r.raised
    /\ last_call' = [op |-> "place_populations_on_island",
                     unknown_species |-> HasUnknownSpecies(population_list)]
    /\ UNCHANGED <<param, landscape_param, map_as_string, year, pc,
                   animal_migrating, log>>

\* An island on StdMap, no animals placed yet.
Init ==
    /\ param = DefaultParam
    /\ landscape_param = DefaultLandscapeParam
    /\ map_as_string = StdMap
    /\ island_map = creating_map(StdMap).island
    /\ animals = <<>>
    /\ created = 0
    /\ year = 0
    /\ pc = Idle
    /\ animal_migrating = <<>>
    /\ raised = "none"
    /\ last_call = [op |-> "Island"]
    /\ log = NoLog
    /\ hist = <<>>

Next ==
    \/ \E population_list \in InputPopulationLists : place_populations(population_list)
    \/ annual_cycle_begin
    \/ herbivores_eating
    \/ carnivores_eating
    \/ procreation_herbivore
    \/ procreation_carnivore
    \/ migration_begin
    \/ migrating_or_not
    \/ migrate_animal
    \/ migration_return
    \/ yearly_ageing_and_weight_loss
    \/ yearly_death
    \/ reset_migrated_parameter
    \/ fodder_regrowth

Spec == Init /\ [][Next]_vars

-----------------------------------------------------------------------------
(* BioSim.simulate (SpecSim): the calls of simulate(num_years) and of      *)
(* add_population made on one simulation, the loop of simulate one         *)
(* iteration per step and the annual cycle one cell method per step.       *)

\* A simulate call is running: it has neither returned nor been left by an
\* exception of the annual cycle.
SimulateRunning == last_call.op = "simulate" /\ raised = "none"

\* BioSim.simulate(num_years), up to its while loop.
BioSim_simulate(num_years) ==
    /\ pc = Idle
    /\ ~SimulateRunning
    /\ year + num_years <= MaxYears
    /\ last_call' = [op |-> "simulate", num_years |-> num_years, from |-> year,
                     final_year |-> year + num_years]
    /\ raised' = "none"
    /\ UNCHANGED <<param, landscape_param, map_as_string, island_map, animals, created,
                   year, pc, animal_migrating, log, hist>>

\* simulate: self.year < self.final_year holds, self._year += 1 and
\* self.island.annual_cycle() is called.
simulate_loop ==
    /\ pc = Idle
    /\ SimulateRunning
    /\ year < last_call.final_year
    /\ year' = year + 1
    /\ pc' = [phase |-> "first_loop", cell |-> 1, step |-> 1]
    /\ log' = [calls |-> [loc \in DOMAIN island_map.cell |-> <<>>],
               migration |-> "not_started",
               count0 |-> [species \in Species |-> IslandCount(island_map.cell, species)],
               eaten |-> 0]
    /\ hist' = [a \in DOMAIN animals |->
                   NewHist(TRUE, animals[a].age, CHOOSE loc \in CellsOf(a) : TRUE)]
    /\ UNCHANGED <<param, landscape_param, map_as_string, island_map, animals,
                   created, animal_migrating, raised, last_call>>

\* simulate: self.year < self.final_year fails, the call returns.
simulate_return ==
    /\ pc = Idle
    /\ SimulateRunning
    /\ ~(year < last_call.final_year)
    /\ last_call' = [op |-> "simulate_returned", num_years |-> last_call.num_years,
                     from |-> last_call.from]
    /\ UNCHANGED <<param, landscape_param, map_as_string, island_map, animals, created,
                   year, pc, animal_migrating, raised, log, hist>>

\* BioSim.add_population(population), between simulate calls.
BioSim_add_population(population) ==
    /\ ~SimulateRunning
    /\ place_populations(population)

NextSim ==
    \/ \E population \in InputPopulationLists : BioSim_add_population(population)
    \/ \E num_years \in 0..MaxYears : BioSim_simulate(num_years)
    \/ simulate_loop
    \/ simulate_return
    \/ herbivores_eating
    \/ carnivores_eating
    \/ procreation_herbivore
    \/ procreation_carnivore
    \/ migration_begin
    \/ migrating_or_not
    \/ migrate_animal
    \/ migration_return
    \/ yearly_ageing_and_weight_loss
    \/ yearly_death
    \/ reset_migrated_parameter
    \/ fodder_regrowth

SpecSim == Init /\ [][NextSim]_vars

-----------------------------------------------------------------------------
(* The cell methods called on their own (SpecCell): animals handed to and  *)
(* taken from the two habitable cells of StdMap.                           *)

HabitableCells == {loc \in DOMAIN island_map.cell : island_map.cell[loc].hospitable}

\* a_cell.add_immigrating_animal(immigrant)
Cell_add_immigrating_animal(loc, immigrant) ==
    LET r == add_immigrating_animal(island_map.cell[loc], animals, immigrant)
    IN  /\ Len(island_map.cell[loc][PopField(animals[immigrant].species)]) < MaxAnimals
        /\ island_map' = [island_map EXCEPT !.cell[loc] = r.cell]
        /\ raised' = r.raised
        /\ last_call' = [op |-> "add_immigrating_animal", loc |-> loc, animal |-> immigrant]
        /\ UNCHANGED <<param, landscape_param, map_as_string, animals, created, year,
                       pc, animal_migrating, log, hist>>

\* a_cell.remove_emigrated_animal(emigrant)
Cell_remove_emigrated_animal(loc, emigrant) ==
    LET r == remove_emigrated_animal(island_map.cell[loc], animals, emigrant)
    IN  /\ island_map' = [island_map EXCEPT !.cell[loc] = r.cell]
        /\ raised' = r.raised
        /\ last_call' = [op |-> "remove_emigrated_animal", loc |-> loc, animal |-> emigrant]
        /\ UNCHANGED <<param, landscape_param, map_as_string, animals, created, year,
                       pc, animal_migrating, log, hist>>

NextCell ==
    \/ \E loc \in HabitableCells :
         \E immigrant \in DOMAIN animals :
            Cell_add_immigrating_animal(loc, immigrant)
    \/ \E loc \in HabitableCells :
         \E emigrant \in DOMAIN animals :
            Cell_remove_emigrated_animal(loc, emigrant)

SpecCell == InitParams /\ [][NextCell]_vars

-----------------------------------------------------------------------------
(* The methods of the animals and of a cell called on their own            *)
(* (SpecFauna): one call on the Lowland cell of StdMap, under parameter    *)
(* tables set_parameters accepts.                                          *)

\* The cell the calls are made on.
FaunaCell == <<1, 1>>

\* The custom_parameters given to Herbivore.set_parameters before the call.
HerbivoreInputDicts == {<<>>, <<<<"w_birth", 0>>>>, <<<<"zeta", 0>>>>}

\* The custom_parameters given to Carnivore.set_parameters before the call.
CarnivoreInputDicts ==
    {<<>>, <<<<"F", 0>>>>, <<<<"beta", 2 * Unit>>>>, <<<<"DeltaPhiMax", Unit \div 2>>>>}

\* The custom_parameters given to Lowland.set_parameters before the island
\* is constructed.
LowlandInputDicts == {<<>>, <<<<"f_max", 15 * Unit>>>>}

\* The animals placed in the cell: a herbivore in its prime, an old light
\* one, an old heavy one, one without weight, a carnivore in its prime, an
\* old light one and one without weight.
FaunaInputIndividuals ==
    {[species |-> "Herbivore", age |-> 5, weight |-> 40 * Unit],
     [species |-> "Herbivore", age |-> 50, weight |-> 3 * Unit],
     [species |-> "Herbivore", age |-> 50, weight |-> 60 * Unit],
     [species |-> "Herbivore", age |-> 5, weight |-> 0],
     [species |-> "Carnivore", age |-> 5, weight |-> 40 * Unit],
     [species |-> "Carnivore", age |-> 50, weight |-> 10 * Unit],
     [species |-> "Carnivore", age |-> 5, weight |-> 0]}

FaunaInputPops == UNION {[1..n -> FaunaInputIndividuals] : n \in 1..MaxAnimals}

InitFauna ==
    \E hd \in HerbivoreInputDicts, cd \in CarnivoreInputDicts, ld \in LowlandInputDicts,
       pop \in FaunaInputPops :
       LET island == creating_map(StdMap).island
           w0 == [cell |-> island.cell, animals |-> <<>>, created |-> 0, hist |-> <<>>]
           w == add_new_population(w0, FaunaCell, pop, 1).world
       IN  /\ param = [Herbivore |-> FaunaSetTable(Herbivore_param, hd).table,
                       Carnivore |-> FaunaSetTable(Carnivore_param, cd).table]
           /\ landscape_param =
                 [DefaultLandscapeParam EXCEPT
                     !["Lowland"] = CellSetTable(DefaultLandscapeParam["Lowland"], ld, 1).table]
           /\ map_as_string = StdMap
           /\ island_map = [island EXCEPT !.cell = w.cell]
           /\ animals = w.animals
           /\ created = w.created
           /\ year = 0
           /\ pc = Idle
           /\ animal_migrating = <<>>
           /\ raised = "none"
           /\ last_call = [op |-> "none"]
           /\ log = NoLog
           /\ hist = w.hist

\* a.birth(num_animals)
Fauna_birth(a, num_animals) ==
    \E r \in Birth(animals, a, num_animals) :
       /\ animals' = r.animals
       /\ last_call' = [op |-> "birth", animal |-> a, num_animals |-> num_animals,
                        ret |-> r.child]
       /\ UNCHANGED <<param, landscape_param, map_as_string, island_map, created, year,
                      pc, animal_migrating, raised, log, hist>>

\* c.eat(population_herbivores) on the herbivore list of the cell, which the
\* call changes in place.
Carnivore_eat(c) ==
    LET population_herbivores == island_map.cell[FaunaCell].pop_herbivores
    IN  \E r \in Eat(animals, c, population_herbivores) :
           LET eaten == Range(population_herbivores) \ Range(r.herbivores)
           IN  /\ island_map' = [island_map EXCEPT
                                    !.cell[FaunaCell].pop_herbivores = r.herbivores]
               /\ animals' = Without(r.animals, eaten)
               /\ hist' = Without(hist, eaten)
               /\ last_call' = [op |-> "eat", animal |-> c, attempts |-> r.attempts]
               /\ UNCHANGED <<param, landscape_param, map_as_string, created, year, pc,
                              animal_migrating, raised, log>>

\* a_cell.herbivores_eating()
Cell_herbivores_eating ==
    \E order \in Shuffles(island_map.cell[FaunaCell].pop_herbivores) :
       LET r == HerbivoresEatFrom(animals, island_map.cell[FaunaCell].fodder, order, 1)
       IN  /\ island_map' = [island_map EXCEPT
                                !.cell[FaunaCell].pop_herbivores = order,
                                !.cell[FaunaCell].fodder = r.fodder]
           /\ animals' = r.animals
           /\ last_call' = [op |-> "herbivores_eating"]
           /\ UNCHANGED <<param, landscape_param, map_as_string, created, year, pc,
                          animal_migrating, raised, log, hist>>

\* a_cell.procreation_herbivore(), a_cell.procreation_carnivore()
Cell_procreation(species) ==
    LET field == PopField(species)
        population == island_map.cell[FaunaCell][field]
    IN  \E r \in ProcreationFrom(animals, population, 1, <<>>) :
           LET born == Newborns(species, r.newborns, FaunaCell)
               ids == [i \in 1..Len(r.newborns) |-> created + i]
           IN  /\ island_map' = [island_map EXCEPT
                                    !.cell[FaunaCell][field] = @ \o ids,
                                    !.cell[FaunaCell].num_newborns[species] = Len(r.newborns)]
               /\ animals' = r.animals @@ [id \in DOMAIN born |-> born[id].animal]
               /\ created' = created + Len(r.newborns)
               /\ hist' = hist @@ [id \in DOMAIN born |-> born[id].hist]
               /\ last_call' = [op |-> "procreation", species |-> species]
               /\ UNCHANGED <<param, landscape_param, map_as_string, year, pc,
                              animal_migrating, raised, log>>

\* a_cell.carnivores_eating()
Cell_carnivores_eating ==
    LET c == island_map.cell[FaunaCell]
        an1 == StoreFitness(animals, population_in_cell(c), 1)
        herbivores == SortByFitness(an1, c.pop_herbivores, FALSE)
        carnivores == SortByFitness(an1, c.pop_carnivores, TRUE)
    IN  \E r \in CarnivoresEatFrom(an1, carnivores, 1, herbivores) :
           LET eaten == Range(herbivores) \ Range(r.herbivores)
           IN  /\ island_map' = [island_map EXCEPT
                                    !.cell[FaunaCell].pop_herbivores = r.herbivores,
                                    !.cell[FaunaCell].pop_carnivores = carnivores]
               /\ animals' = Without(r.animals, eaten)
               /\ hist' = Without(hist, eaten)
               /\ last_call' = [op |-> "carnivores_eating", attempts |-> r.attempts]
               /\ UNCHANGED <<param, landscape_param, map_as_string, created, year, pc,
                              animal_migrating, raised, log>>

\* a_cell.yearly_death()
Cell_yearly_death ==
    LET c == island_map.cell[FaunaCell]
    IN  \E r \in DeathFrom(animals, population_in_cell(c), 1, {}) :
           LET alive(a) == a \notin r.dead
               dead_herbivores == r.dead \cap Range(c.pop_herbivores)
               dead_carnivores == r.dead \cap Range(c.pop_carnivores)
           IN  /\ island_map' = [island_map EXCEPT
                                    !.cell[FaunaCell].pop_herbivores = SelectSeq(@, alive),
                                    !.cell[FaunaCell].pop_carnivores = SelectSeq(@, alive),
                                    !.cell[FaunaCell].num_deaths =
                                        [Herbivore |-> Cardinality(dead_herbivores),
                                         Carnivore |-> Cardinality(dead_carnivores)]]
               /\ animals' = Without(r.animals, r.dead)
               /\ hist' = Without(hist, r.dead)
               /\ last_call' = [op |-> "yearly_death"]
               /\ UNCHANGED <<param, landscape_param, map_as_string, created, year, pc,
                              animal_migrating, raised, log>>

\* One call is made in a behaviour, or yearly_death is called repeatedly.
NoCallYet == last_call.op = "none"

NextFauna ==
    \/ /\ NoCallYet
       /\ \E a \in DOMAIN animals :
             \E num_animals \in 0..MaxAnimals :
                Fauna_birth(a, num_animals)
    \/ /\ NoCallYet
       /\ \E c \in Range(island_map.cell[FaunaCell].pop_carnivores) :
             Carnivore_eat(c)
    \/ /\ NoCallYet
       /\ Cell_herbivores_eating
    \/ /\ NoCallYet
       /\ \E species \in Species :
             Cell_procreation(species)
    \/ /\ NoCallYet
       /\ Cell_carnivores_eating
    \/ /\ last_call.op \in {"none", "yearly_death"}
       /\ Cell_yearly_death

SpecFauna == InitFauna /\ [][NextFauna]_vars

-----------------------------------------------------------------------------
(* migrating_or_not called on its own (SpecMigrating): on the Lowland cell *)
(* of StdMap, after mark_as_migrated was called for some of its animals.   *)

InitMigrating ==
    /\ InitFauna
    /\ param = DefaultParam
    /\ landscape_param = DefaultLandscapeParam

\* Cell.mark_as_migrated(animal)
Cell_mark_as_migrated(animal) ==
    /\ animals[animal].migrated = FALSE
    /\ animals' = [animals EXCEPT ![animal] = [animals[animal] EXCEPT !.migrated = TRUE]]
    /\ last_call' = [op |-> "mark_as_migrated", animal |-> animal]
    /\ UNCHANGED <<param, landscape_param, map_as_string, island_map, created, year, pc,
                   animal_migrating, raised, log, hist>>

\* a_cell.migrating_or_not()
Cell_migrating_or_not ==
    \E r \in MigratingFrom(animals, population_in_cell(island_map.cell[FaunaCell]),
                           1, <<>>, {}) :
       /\ animals' = r.animals
       /\ animal_migrating' = r.migrating
       /\ last_call' = [op |-> "migrating_or_not", ret |-> r.migrating]
       /\ UNCHANGED <<param, landscape_param, map_as_string, island_map, created, year,
                      pc, raised, log, hist>>

NextMigrating ==
    \/ /\ last_call.op \in {"none", "mark_as_migrated"}
       /\ \E animal \in DOMAIN animals : Cell_mark_as_migrated(animal)
    \/ /\ last_call.op \in {"none", "mark_as_migrated"}
       /\ Cell_migrating_or_not

SpecMigrating == InitMigrating /\ [][NextMigrating]_vars

-----------------------------------------------------------------------------
(* get_fitness called on an animal as its constructor leaves it            *)
(* (SpecFitness): Herbivore(age, weight) and Carnivore(age, weight) accept *)
(* every age and weight.                                                   *)

\* The ages given to the constructor.
FitnessInputAges == {0, 5, 40, 1300, 2500}

\* The weights given to the constructor.
FitnessInputWeights ==
    {0 - 5000 * Unit, 0 - 2000 * Unit, 0 - Unit, 0, Unit, 10 * Unit, 40 * Unit}

InitFitness ==
    \E species \in Species, age \in FitnessInputAges, weight \in FitnessInputWeights :
       /\ param = DefaultParam
       /\ landscape_param = DefaultLandscapeParam
       /\ map_as_string = <<>>
       /\ island_map = NoIsland
       /\ animals = <<NewAnimal(species, age, weight)>>
       /\ created = 1
       /\ year = 0
       /\ pc = Idle
       /\ animal_migrating = <<>>
       /\ raised = "none"
       /\ last_call = [op |-> "none"]
       /\ log = NoLog
       /\ hist = <<>>

\* a.get_fitness()
Fauna_get_fitness(a) ==
    LET p == ParamOf(animals, a)
    IN  IF GetFitnessRaises(p, animals[a].age, animals[a].weight)
        THEN /\ raised' = "OverflowError"
             /\ last_call' = [op |-> "get_fitness", animal |-> a, ret |-> None]
             /\ UNCHANGED <<param, landscape_param, map_as_string, island_map, animals,
                            created, year, pc, animal_migrating, log, hist>>
        ELSE /\ animals' = WithFitness(animals, a)
             /\ last_call' = [op |-> "get_fitness", animal |-> a, ret |-> FitnessOf(animals, a)]
             /\ UNCHANGED <<param, landscape_param, map_as_string, island_map, created,
                            year, pc, animal_migrating, raised, log, hist>>

NextFitness ==
    /\ NoCallYet
    /\ \E a \in DOMAIN animals : Fauna_get_fitness(a)

SpecFitness == InitFitness /\ [][NextFitness]_vars

-----------------------------------------------------------------------------
(* Claims about the parameter tables (SpecParams).                         *)

SetParametersReturned == last_call.op = "set_parameters" /\ raised = "none"

SetParametersRaised == last_call.op = "set_parameters" /\ raised # "none"

\* C5: a set_parameters call that raises leaves the parameter tables as they
\* were before the call, also when valid entries precede the rejected one.
C5_FailedCallLeavesTables ==
    [][SetParametersRaised' => (param' = param /\ landscape_param' = landscape_param)]_vars

\* C6: after any sequence of set_parameters calls, every value of a species'
\* table is >= 0, DeltaPhiMax is > 0 and eta is <= 1.
C6_SpeciesTablesInBounds ==
    \A cls \in FaunaClasses :
        \A key \in DOMAIN param[cls] :
            /\ param[cls][key] >= 0
            /\ key = "DeltaPhiMax" => param[cls][key] > 0
            /\ key = "eta" => param[cls][key] <= Unit

\* C6 witness: calls have stored the limit values eta = 1 and a new
\* DeltaPhiMax, and the last call raised.
C6_Witness ==
    /\ SetParametersRaised
    /\ param["Carnivore"].eta = Unit
    /\ param["Carnivore"].DeltaPhiMax = Unit
    /\ param["Herbivore"].eta = 0

\* C7: after a set_parameters call on a class that returns, the table of
\* that class, every existing object of that class and an object of that
\* class constructed afterwards read the values given, and the tables of
\* the other classes, and what their objects read, are unchanged.
C7_SharedPerClass ==
    [][SetParametersReturned' =>
        LET cls == last_call'.cls
            arg == last_call'.arg
        IN  /\ \A c \in FaunaClasses \ {cls} : param'[c] = param[c]
            /\ \A c \in LandscapeClasses \ {cls} : landscape_param'[c] = landscape_param[c]
            /\ \A a \in DOMAIN animals :
                  animals[a].species # cls => AnimalParam(a)' = AnimalParam(a)
            /\ \A loc \in DOMAIN island_map.cell :
                  LandscapeClass(island_map.cell[loc].landscape) # cls
                      => CellParam(loc)' = CellParam(loc)
            /\ \A i \in DOMAIN arg :
                  /\ cls \in FaunaClasses =>
                        /\ param'[cls][arg[i][1]] = arg[i][2]
                        /\ \A a \in DOMAIN animals' :
                              animals'[a].species = cls
                                  => AnimalParam(a)'[arg[i][1]] = arg[i][2]
                  /\ cls \in LandscapeClasses =>
                        /\ landscape_param'[cls][arg[i][1]] = arg[i][2]
                        /\ \A loc \in DOMAIN island_map'.cell :
                              LandscapeClass(island_map'.cell[loc].landscape) = cls
                                  => CellParam(loc)'[arg[i][1]] = arg[i][2]
                        /\ \A char \in {"W", "L", "H", "D"} :
                              LandscapeClass(char) = cls
                                  => NewCell(char)'.fodder = arg[i][2]]_vars

\* C7 witness: a call with two entries on Carnivore returned while a
\* carnivore object exists.
C7_Witness ==
    /\ SetParametersReturned
    /\ last_call.cls = "Carnivore"
    /\ Len(last_call.arg) = 2
    /\ \E a \in DOMAIN animals : animals[a].species = "Carnivore"

-----------------------------------------------------------------------------
(* Claims about the construction of an Island (SpecMap).                   *)

\* The rows of the map a text holds, its indentation removed.
MapRowsOf(text) == Dedent(Split(text, "\n"))

HasNonWaterBorder(rows) ==
    \E i \in DOMAIN rows : \E j \in DOMAIN rows[i] :
        /\ i \in {1, Len(rows)} \/ j \in {1, Len(rows[i])}
        /\ rows[i][j] # "W"

HasUnequalRows(rows) == \E i, j \in DOMAIN rows : Len(rows[i]) # Len(rows[j])

HasUnknownChar(rows) ==
    \E i \in DOMAIN rows : \E j \in DOMAIN rows[i] : rows[i][j] \notin {"W", "L", "H", "D"}

\* C10: Island construction succeeds only for rectangular maps over W/L/H/D
\* with Water in every border cell, and a map with a non-Water border cell,
\* rows of unequal length or an unknown character is rejected with ValueError.
C10_InvalidMapValueError ==
    last_call.op = "Island" =>
        LET rows == MapRowsOf(map_as_string)
            invalid == HasNonWaterBorder(rows) \/ HasUnequalRows(rows) \/ HasUnknownChar(rows)
        IN  /\ raised = "none" => (~invalid /\ island_map # NoIsland)
            /\ invalid => raised = "ValueError"

-----------------------------------------------------------------------------
(* Claims about the annual cycle (Spec).                                   *)

\* The cell the lists put animal a in.
CellOf(a) == CHOOSE loc \in CellsOf(a) : TRUE

\* annual_cycle() has returned normally and nothing was called since.
CycleEnded ==
    /\ pc = Idle
    /\ last_call.op = "annual_cycle"
    /\ raised = "none"

\* C1: in every annual_cycle() each cell does herbivores_eating,
\* carnivores_eating, procreation_herbivore, procreation_carnivore in that
\* order; migration() starts only when every cell has done these four; no
\* cell does yearly_ageing_and_weight_loss, yearly_death,
\* reset_migrated_parameter or fodder_regrowth before migration() has
\* finished, and each cell then does them in exactly that order.
C1_PhasesOrdered ==
    LET order == <<"herbivores_eating", "carnivores_eating", "procreation_herbivore",
                   "procreation_carnivore", "yearly_ageing_and_weight_loss",
                   "yearly_death", "reset_migrated_parameter", "fodder_regrowth">>
    IN  /\ \A loc \in DOMAIN log.calls :
              /\ Len(log.calls[loc]) <= Len(order)
              /\ log.calls[loc] = SubSeq(order, 1, Len(log.calls[loc]))
              /\ Len(log.calls[loc]) > 4 => log.migration = "finished"
        /\ log.migration # "not_started" =>
              \A loc \in DOMAIN log.calls : Len(log.calls[loc]) >= 4

\* C1 witness: a cycle has returned with all eight methods called on every
\* cell and the migration pass in between.
C1_Witness ==
    /\ CycleEnded
    /\ log.migration = "finished"
    /\ \A loc \in DOMAIN island_map.cell : Len(log.calls[loc]) = 8
    /\ \E a \in DOMAIN hist : hist[a].moved = 1

\* C2: within one migration() pass no animal is relocated more than once,
\* no animal is evaluated as a candidate after it was relocated (nor more
\* than once at all), and every animal is, during and after the pass, in the
\* cell it started the pass in or in one of the 4 cells adjacent to it.
C2_SinglePass ==
    \A a \in DOMAIN hist :
       /\ hist[a].moved <= 1
       /\ hist[a].evaluated <= 1
       /\ hist[a].chosen <= hist[a].evaluated
       /\ (log.migration # "not_started" /\ a \in OnIsland) =>
             LET from == hist[a].cell0
                 to == CellOf(a)
                 dr == IF to[1] >= from[1] THEN to[1] - from[1] ELSE from[1] - to[1]
                 dc == IF to[2] >= from[2] THEN to[2] - from[2] ELSE from[2] - to[2]
             IN  /\ CellsOf(a) = {to}
                 /\ IF hist[a].moved = 0 THEN to = from ELSE dr + dc = 1

\* C2 witness: the pass has finished with an animal relocated into a cell
\* the pass handled after the cell it came from.
C2_Witness ==
    /\ log.migration = "finished"
    /\ \E a \in OnIsland :
          /\ hist[a].moved = 1
          /\ hist[a].cell0 = <<1, 1>>
          /\ CellOf(a) = <<1, 2>>

\* C3: migration() never adds an animal to the lists of a cell that is not
\* hospitable (Water); an animal whose chosen neighbour is not hospitable
\* stays in the lists of the cell it was in, is not relocated and gets no
\* second choice in the same pass.
C3_NeverIntoWater ==
    [][/\ pc.phase = "migration" =>
             \A loc \in DOMAIN island_map.cell :
                ~island_map.cell[loc].hospitable =>
                    /\ Range(island_map'.cell[loc].pop_herbivores)
                           \subseteq Range(island_map.cell[loc].pop_herbivores)
                    /\ Range(island_map'.cell[loc].pop_carnivores)
                           \subseteq Range(island_map.cell[loc].pop_carnivores)
       /\ \A a \in DOMAIN hist' :
             hist'[a].blocked > 0 =>
                /\ hist'[a].moved = 0
                /\ hist'[a].chosen = 1
                /\ hist'[a].blocked = 1
                /\ CellsOf(a)' = {hist'[a].cell0}
                /\ animals'[a].migrated = FALSE]_vars

\* C3 witness: the pass has finished with an animal of the Lowland cell
\* whose chosen neighbour was Water.
C3_Witness ==
    /\ log.migration = "finished"
    /\ \E a \in OnIsland :
          /\ hist[a].blocked = 1
          /\ CellOf(a) = <<1, 1>>

\* C4: when annual_cycle() returns, every animal that was on the island when
\* it began and is still alive is exactly one year older and had weight_loss
\* applied exactly once, migrated or not; every animal born in the cycle
\* has age 1.
C4_AgedOncePerCycle ==
    CycleEnded =>
       \A a \in DOMAIN animals :
          IF hist[a].at_start
          THEN /\ animals[a].age = hist[a].age0 + 1
               /\ hist[a].aged = 1
               /\ hist[a].lost = 1
          ELSE /\ animals[a].age = 1
               /\ hist[a].aged = 1
               /\ hist[a].lost = 1

\* C4 witness: a cycle has returned with a survivor that was relocated and
\* an animal born in the cycle.
C4_Witness ==
    /\ CycleEnded
    /\ \E a \in DOMAIN animals : hist[a].at_start /\ hist[a].moved = 1
    /\ \E a \in DOMAIN animals : ~hist[a].at_start

\* C8: a placement call whose input holds an individual of an unknown
\* species raises ValueError and leaves every cell population as it was
\* before the call.
C8_PlacementFailsAsAWhole ==
    [][(last_call'.op = "place_populations_on_island" /\ last_call'.unknown_species) =>
          /\ raised' = "ValueError"
          /\ island_map' = island_map]_vars

-----------------------------------------------------------------------------
(* Claims about the cell methods (SpecCell).                               *)

\* C9: remove_emigrated_animal called with an animal that is not in the
\* cell's population list of its species raises ValueError and leaves both
\* population lists of the cell unchanged.
C9_RemoveAbsentRaises ==
    [][(/\ last_call'.op = "remove_emigrated_animal"
        /\ last_call'.animal \notin
              Range(island_map.cell[last_call'.loc][PopField(animals[last_call'.animal].species)]))
          => /\ raised' = "ValueError"
             /\ island_map'.cell[last_call'.loc].pop_herbivores
                    = island_map.cell[last_call'.loc].pop_herbivores
             /\ island_map'.cell[last_call'.loc].pop_carnivores
                    = island_map.cell[last_call'.loc].pop_carnivores]_vars

\* C9 witness: the call raised ValueError for a herbivore while the cell
\* held other animals.
C9_Witness ==
    /\ last_call.op = "remove_emigrated_animal"
    /\ raised = "ValueError"
    /\ animals[last_call.animal].species = "Herbivore"
    /\ last_call.animal \notin Range(island_map.cell[last_call.loc].pop_herbivores)
    /\ Len(island_map.cell[last_call.loc].pop_carnivores) > 0


-----------------------------------------------------------------------------
(* Claims about the methods of the animals called on their own (SpecFauna).*)

\* The sum of the weights of the animals of a list.
RECURSIVE SumWeights(_, _)
SumWeights(an, list) ==
    IF Len(list) = 0 THEN 0
    ELSE an[list[1]].weight + SumWeights(an, SubSeq(list, 2, Len(list)))

\* The herbivores an eat call took from the list, in the order of the list.
EatenInOrder == SelectSeq(island_map.cell[FaunaCell].pop_herbivores,
                          LAMBDA h : h \notin DOMAIN animals')

\* The position in list of the animal a.
PositionIn(list, a) == CHOOSE i \in DOMAIN list : list[i] = a

\* C11: Carnivore.eat stops as soon as the accumulated eaten weight reaches
\* F: the weight eaten before the last herbivore it ate is strictly below F,
\* and once the eaten weight is at least F no herbivore later in the list is
\* attempted (its fitness is not recomputed, it stays in the list).
C11_EatStopsAtF ==
    [][last_call'.op = "eat" =>
          LET list == island_map.cell[FaunaCell].pop_herbivores
              eaten == EatenInOrder
              F == param["Carnivore"].F
          IN  Len(eaten) > 0 =>
                 LET last == eaten[Len(eaten)]
                     before == SubSeq(eaten, 1, Len(eaten) - 1)
                 IN  /\ SumWeights(animals, before) < F
                     /\ SumWeights(animals, eaten) >= F =>
                           \A k \in (PositionIn(list, last) + 1)..Len(list) :
                              /\ list[k] \in DOMAIN animals'
                              /\ animals'[list[k]].fitness = animals[list[k]].fitness]_vars

\* The sum of the weights of all herbivores and carnivores of the cell.
Biomass(c, an) == SumWeights(an, population_in_cell(c))

\* C12: Carnivore.eat never increases the total herbivore and carnivore
\* biomass of the cell, whatever the herbivore list and the accepted
\* parameter table: the sum of the weights after eat() is at most the sum
\* before it.
C12_EatNeverIncreasesBiomass ==
    [][last_call'.op = "eat" =>
          Biomass(island_map'.cell[FaunaCell], animals')
             <= Biomass(island_map.cell[FaunaCell], animals)]_vars

\* C13: birth(num_animals) returns no child weight when num_animals <= 1,
\* whatever the age, the weight and the draws; and procreation in a cell
\* that holds a single animal of the species adds no newborn.
C13_NoBirthWhenAlone ==
    [][/\ (last_call'.op = "birth" /\ last_call'.num_animals <= 1) =>
             last_call'.ret = None
       /\ (/\ last_call'.op = "procreation"
           /\ Len(island_map.cell[FaunaCell][PopField(last_call'.species)]) = 1) =>
             /\ created' = created
             /\ island_map'.cell[FaunaCell].pop_herbivores
                   = island_map.cell[FaunaCell].pop_herbivores
             /\ island_map'.cell[FaunaCell].pop_carnivores
                   = island_map.cell[FaunaCell].pop_carnivores]_vars

\* procreation_herbivore has returned in a cell whose only herbivore is heavy
\* enough to give birth and shares the cell with carnivores.
C13_Witness ==
    LET c == island_map.cell[FaunaCell]
    IN  /\ last_call.op = "procreation"
        /\ last_call.species = "Herbivore"
        /\ Len(c.pop_herbivores) = 1
        /\ Len(c.pop_carnivores) >= 1
        /\ animals[c.pop_herbivores[1]].weight = 40 * Unit
        /\ animals[c.pop_herbivores[1]].age = 5

\* C14: birth() never takes the weight of the mother below zero: a child
\* weight is returned only when the mother weighs at least xi * child_weight,
\* the weight then falls by exactly xi * child_weight, and whenever None is
\* returned (the birth did not happen or was aborted) the weight is unchanged.
C14_BirthKeepsWeight ==
    [][last_call'.op = "birth" =>
          LET a == last_call'.animal
              child == last_call'.ret
              xi == param[animals[a].species].xi
          IN  /\ child = None => animals'[a].weight = animals[a].weight
              /\ child # None =>
                    /\ animals[a].weight >= Mul(xi, child)
                    /\ animals'[a].weight = animals[a].weight - Mul(xi, child)
              /\ animals[a].weight >= 0 => animals'[a].weight >= 0]_vars

\* birth has returned None for a mother among other animals that is heavy
\* enough to try (zeta = 0) and too light for every child weight the draw
\* can give.
C14_Witness ==
    /\ last_call.op = "birth"
    /\ last_call.num_animals >= 2
    /\ last_call.ret = None
    /\ LET a == last_call.animal
           p == param[animals[a].species]
       IN  /\ animals[a].weight > 0
           /\ animals[a].weight >= Mul(p.zeta, p.w_birth + p.sigma_birth)
           /\ \A child_weight \in GaussDraws(p.w_birth, p.sigma_birth) :
                 animals[a].weight < Mul(p.xi, child_weight)

\* What the i-th herbivore of the feeding order finds and eats when the
\* cell held fodder0 and each herbivore before it took F.
FodderLeftFor(i, fodder0, F) == Max(0, fodder0 - (i - 1) * F)

EatenBy(i, fodder0, F) == Min(F, FodderLeftFor(i, fodder0, F))

RECURSIVE TotalEaten(_, _, _)
TotalEaten(n, fodder0, F) ==
    IF n = 0 THEN 0 ELSE TotalEaten(n - 1, fodder0, F) + EatenBy(n, fodder0, F)

\* C20: in herbivores_eating, following the shuffled feeding order, each
\* herbivore eats min(F, remaining fodder) and gains beta times that amount;
\* once the fodder is exhausted the remaining herbivores gain nothing; the
\* fodder of the cell falls by exactly the total eaten and ends at
\* max(0, fodder_before - n * F) for n herbivores.
C20_HerbivoresEatInTurn ==
    [][last_call'.op = "herbivores_eating" =>
          LET order == island_map'.cell[FaunaCell].pop_herbivores
              n == Len(order)
              fodder0 == island_map.cell[FaunaCell].fodder
              p == param["Herbivore"]
          IN  /\ Range(order) = Range(island_map.cell[FaunaCell].pop_herbivores)
              /\ n = Len(island_map.cell[FaunaCell].pop_herbivores)
              /\ \A i \in 1..n :
                    animals'[order[i]].weight
                       = animals[order[i]].weight + Mul(p.beta, EatenBy(i, fodder0, p.F))
              /\ \A c \in Range(island_map.cell[FaunaCell].pop_carnivores) :
                    animals'[c].weight = animals[c].weight
              /\ island_map'.cell[FaunaCell].fodder = Max(0, fodder0 - n * p.F)
              /\ fodder0 - island_map'.cell[FaunaCell].fodder
                    = TotalEaten(n, fodder0, p.F)]_vars

\* herbivores_eating has returned in a cell that held 15 units of fodder and
\* three herbivores of weight 40: the first of the order ate F = 10, the
\* second the 5 left, the third nothing.
C20_Witness ==
    LET c == island_map.cell[FaunaCell]
        p == param["Herbivore"]
    IN  /\ last_call.op = "herbivores_eating"
        /\ landscape_param["Lowland"].f_max = 15 * Unit
        /\ c.fodder = 0
        /\ Len(c.pop_herbivores) = 3
        /\ animals[c.pop_herbivores[1]].weight = 40 * Unit + Mul(p.beta, 10 * Unit)
        /\ animals[c.pop_herbivores[2]].weight = 40 * Unit + Mul(p.beta, 5 * Unit)
        /\ animals[c.pop_herbivores[3]].weight = 40 * Unit

\* The animals of a list whose weight the step changed, in list order.
WeightChanged(list) ==
    SelectSeq(list, LAMBDA a : animals'[a].weight # animals[a].weight)

\* C21: in procreation_herbivore / procreation_carnivore only the animals in
\* the list at the start of the phase attempt birth, each once, with the
\* number of animals of that species in the cell before the phase as the
\* count (an animal alone of its species is not evaluated, whatever the
\* other species); a newborn of the phase attempts nothing; the newborns
\* are appended after the list, one per mother that gave birth, and
\* num_newborns of the species is their number.
C21_ProcreationOfThoseAtStart ==
    [][last_call'.op = "procreation" =>
          LET species == last_call'.species
              other == CHOOSE sp \in Species : sp # species
              field == PopField(species)
              c == island_map.cell[FaunaCell]
              c1 == island_map'.cell[FaunaCell]
              p == param[species]
              n0 == Len(c[field])
              k == Len(c1[field]) - n0
              mothers == WeightChanged(c[field])
              tries(a) == n0 > 1 /\ animals[a].weight >= Mul(p.zeta, p.w_birth + p.sigma_birth)
          IN  /\ k >= 0
              /\ SubSeq(c1[field], 1, n0) = c[field]
              /\ c1.num_newborns[species] = k
              /\ created' = created + k
              /\ c1[PopField(other)] = c[PopField(other)]
              /\ c1.num_newborns[other] = c.num_newborns[other]
              /\ \A a \in Range(c[PopField(other)]) : animals'[a] = animals[a]
              /\ Len(mothers) = k
              /\ \A j \in 1..k :
                    LET newborn == c1[field][n0 + j]
                    IN  /\ newborn \notin DOMAIN animals
                        /\ animals'[newborn] = NewAnimal(species, 0, animals'[newborn].weight)
                        /\ animals[mothers[j]].weight - animals'[mothers[j]].weight
                              = Mul(p.xi, animals'[newborn].weight)
              /\ \A a \in Range(c[field]) :
                    /\ animals'[a].age = animals[a].age
                    /\ animals'[a].fitness =
                          IF tries(a) THEN GetFitness(p, animals[a].age, animals[a].weight)
                          ELSE animals[a].fitness]_vars

\* procreation_herbivore has returned in a cell with carnivores where, under
\* zeta = 0 (any weight is enough to try), two herbivores gave birth: the
\* newborns are at the end of the list and were not evaluated.
C21_Witness ==
    LET c == island_map.cell[FaunaCell]
    IN  /\ last_call.op = "procreation"
        /\ last_call.species = "Herbivore"
        /\ param["Herbivore"].zeta = 0
        /\ Len(c.pop_carnivores) = 1
        /\ Len(c.pop_herbivores) = 4
        /\ c.num_newborns["Herbivore"] = 2
        /\ \A j \in 3..4 : animals[c.pop_herbivores[j]].fitness = None

\* C22: yearly_death() sets both death counters from 0: it removes the
\* animals for which death() returned true and no others (an animal without
\* weight always, an animal whose death probability is 0 never), keeps the
\* others in their order and unchanged in age and weight, so that afterwards
\* no animal with weight <= 0 is left in the cell, and num_deaths of each
\* species is the number of animals of the species this call removed.
C22_YearlyDeathRemovesTheDead ==
    [][last_call'.op = "yearly_death" =>
          LET c == island_map.cell[FaunaCell]
              c1 == island_map'.cell[FaunaCell]
              stays(a) == a \in DOMAIN animals'
              death_probability(a) ==
                  Mul(param[animals[a].species].omega,
                      Unit - GetFitness(param[animals[a].species], animals[a].age,
                                        animals[a].weight))
          IN  /\ c1.pop_herbivores = SelectSeq(c.pop_herbivores, stays)
              /\ c1.pop_carnivores = SelectSeq(c.pop_carnivores, stays)
              /\ c1.num_deaths["Herbivore"] = Len(c.pop_herbivores) - Len(c1.pop_herbivores)
              /\ c1.num_deaths["Carnivore"] = Len(c.pop_carnivores) - Len(c1.pop_carnivores)
              /\ \A a \in Range(population_in_cell(c)) :
                    /\ animals[a].weight <= 0 => ~stays(a)
                    /\ (animals[a].weight > 0 /\ death_probability(a) = 0) => stays(a)
                    /\ stays(a) => /\ animals'[a].weight = animals[a].weight
                                   /\ animals'[a].age = animals[a].age
              /\ \A a \in Range(population_in_cell(c1)) : animals'[a].weight > 0]_vars

\* yearly_death has returned in a cell where it removed a herbivore without
\* weight and a carnivore, and left a herbivore.
C22_Witness ==
    LET c == island_map.cell[FaunaCell]
    IN  /\ last_call.op = "yearly_death"
        /\ created = 3
        /\ c.num_deaths = [Herbivore |-> 1, Carnivore |-> 1]
        /\ Len(c.pop_herbivores) = 1
        /\ Len(c.pop_carnivores) = 0
        /\ animals[c.pop_herbivores[1]].weight = 40 * Unit

\* C24: in carnivores_eating() the carnivores hunt in non-increasing order
\* of the fitness they have at the start, each one attempts the herbivores in
\* non-decreasing order of fitness, a herbivore that was eaten is not offered
\* again, and the herbivore list afterwards holds exactly the uneaten ones.
C24_CarnivoresHuntInOrder ==
    [][last_call'.op = "carnivores_eating" =>
          LET c == island_map.cell[FaunaCell]
              c1 == island_map'.cell[FaunaCell]
              attempts == last_call'.attempts
              fitness(a) == GetFitness(param[animals[a].species], animals[a].age,
                                       animals[a].weight)
              eaten == {attempts[i].herbivore : i \in {k \in DOMAIN attempts : attempts[k].eats}}
          IN  /\ \A i, j \in DOMAIN attempts :
                    i < j =>
                       /\ fitness(attempts[i].carnivore) >= fitness(attempts[j].carnivore)
                       /\ attempts[i].carnivore = attempts[j].carnivore =>
                             /\ fitness(attempts[i].herbivore) <= fitness(attempts[j].herbivore)
                             /\ attempts[i].herbivore # attempts[j].herbivore
                             /\ \A k \in i..j : attempts[k].carnivore = attempts[i].carnivore
                       /\ attempts[i].eats => attempts[j].herbivore # attempts[i].herbivore
              /\ \A i \in DOMAIN attempts :
                    /\ attempts[i].carnivore \in Range(c.pop_carnivores)
                    /\ attempts[i].herbivore \in Range(c.pop_herbivores)
                    /\ attempts[i].herbivore_fitness = fitness(attempts[i].herbivore)
              /\ (c.pop_carnivores # <<>> /\ c.pop_herbivores # <<>>) =>
                    /\ attempts # <<>>
                    /\ \A a \in Range(c.pop_carnivores) :
                          fitness(a) <= fitness(attempts[1].carnivore)
                    /\ \A h \in Range(c.pop_herbivores) :
                          fitness(attempts[1].herbivore) <= fitness(h)
              /\ Range(c1.pop_herbivores) = Range(c.pop_herbivores) \ eaten
              /\ Len(c1.pop_herbivores) = Len(c.pop_herbivores) - Cardinality(eaten)
              /\ DOMAIN animals' = (DOMAIN animals) \ eaten
              /\ \A i, j \in DOMAIN c1.pop_herbivores :
                    i < j => fitness(c1.pop_herbivores[i]) <= fitness(c1.pop_herbivores[j])
              /\ Range(c1.pop_carnivores) = Range(c.pop_carnivores)
              /\ Len(c1.pop_carnivores) = Len(c.pop_carnivores)
              /\ \A i, j \in DOMAIN c1.pop_carnivores :
                    i < j => fitness(c1.pop_carnivores[i]) >= fitness(c1.pop_carnivores[j])]_vars

\* Two carnivores were placed with the less fit one first and a herbivore:
\* the fitter carnivore made the one attempt of the phase and ate it, and
\* nothing was left to offer to the other.
C24_Witness ==
    LET c == island_map.cell[FaunaCell]
    IN  /\ last_call.op = "carnivores_eating"
        /\ Len(c.pop_carnivores) = 2
        /\ c.pop_herbivores = <<>>
        /\ Len(last_call.attempts) = 1
        /\ last_call.attempts[1].eats
        /\ last_call.attempts[1].carnivore = c.pop_carnivores[1]
        /\ c.pop_carnivores[1] > c.pop_carnivores[2]
        /\ animals[c.pop_carnivores[2]].weight = 10 * Unit

\* The weight a carnivore has put on by the attempts before attempt i.
RECURSIVE GainedBefore(_, _, _, _)
GainedBefore(an, attempts, c, i) ==
    IF i <= 1 THEN 0
    ELSE GainedBefore(an, attempts, c, i - 1)
         + (IF attempts[i - 1].carnivore = c /\ attempts[i - 1].eats
            THEN Mul(param[an[c].species].beta, an[attempts[i - 1].herbivore].weight)
            ELSE 0)

\* C25: eating_or_not compares the fitness the carnivore and the herbivore
\* have at the attempt and answers false whenever the carnivore's is not the
\* greater one, so every herbivore that Carnivore.eat() removes was strictly
\* less fit than the carnivore at that moment, and a carnivore with weight
\* <= 0, whose fitness is 0, eats nothing.
C25_EatsOnlyTheLessFit ==
    [][last_call'.op \in {"eat", "carnivores_eating"} =>
          LET attempts == last_call'.attempts
              eaten == {attempts[i].herbivore : i \in {k \in DOMAIN attempts : attempts[k].eats}}
              weight(i) == animals[attempts[i].carnivore].weight
                           + GainedBefore(animals, attempts, attempts[i].carnivore, i)
          IN  /\ \A i \in DOMAIN attempts :
                    LET c == attempts[i].carnivore
                        herbi == attempts[i].herbivore
                    IN  /\ attempts[i].fitness =
                              GetFitness(param[animals[c].species], animals[c].age, weight(i))
                        /\ attempts[i].herbivore_fitness =
                              GetFitness(param[animals[herbi].species], animals[herbi].age,
                                         animals[herbi].weight)
                        /\ attempts[i].fitness <= attempts[i].herbivore_fitness
                              => ~attempts[i].eats
                        /\ attempts[i].eats
                              => attempts[i].herbivore_fitness < attempts[i].fitness
                        /\ weight(i) <= 0 => (attempts[i].fitness = 0 /\ ~attempts[i].eats)
              /\ DOMAIN animals' = (DOMAIN animals) \ eaten
              /\ \A c \in Range(island_map.cell[FaunaCell].pop_carnivores) :
                    /\ animals'[c].weight = animals[c].weight
                          + GainedBefore(animals, attempts, c, Len(attempts) + 1)
                    /\ animals[c].weight <= 0 => animals'[c].weight = animals[c].weight]_vars

\* A carnivore of little fitness has left the fitter of two herbivores alone
\* and eaten the less fit one.
C25_Witness ==
    /\ last_call.op = "eat"
    /\ Len(last_call.attempts) = 2
    /\ \E i, j \in {1, 2} :
          /\ last_call.attempts[i].eats
          /\ last_call.attempts[i].herbivore_fitness < last_call.attempts[i].fitness
          /\ ~last_call.attempts[j].eats
          /\ 0 < last_call.attempts[j].fitness
          /\ last_call.attempts[j].fitness <= last_call.attempts[j].herbivore_fitness
    /\ Len(island_map.cell[FaunaCell].pop_herbivores) = 1

\* C17: every animal on the island has weight >= 0 in every reachable
\* state: placement, feeding and birth (the mother, and the newborn whose
\* weight is the Gaussian draw birth() returns) produce no animal of
\* negative weight.
C17_WeightsNonNegative ==
    \A loc \in DOMAIN island_map.cell :
       \A a \in Range(population_in_cell(island_map.cell[loc])) :
          animals[a].weight >= 0

-----------------------------------------------------------------------------
(* Claims about get_fitness (SpecFitness).                                 *)

\* C15: for every animal with weight <= 0, get_fitness() returns 0 and
\* stores 0 in the fitness of the animal, whatever its age and species.
C15_NoWeightNoFitness ==
    last_call.op = "get_fitness" =>
       LET a == last_call.animal
       IN  animals[a].weight <= 0 =>
              /\ raised = "none"
              /\ last_call.ret = 0
              /\ animals[a].fitness = 0

-----------------------------------------------------------------------------
(* Claims about the fodder of the cells (SpecParams).                      *)

\* C16: in every reachable state the fodder of each cell is at least 0 and
\* at most the current f_max of its landscape type, also after a landscape
\* set_parameters call made between years.
C16_FodderWithinFMax ==
    \A loc \in DOMAIN island_map.cell :
       LET c == island_map.cell[loc]
       IN  /\ 0 <= c.fodder
           /\ c.fodder <= landscape_param[LandscapeClass(c.landscape)].f_max

-----------------------------------------------------------------------------
(* Claims about BioSim.simulate (SpecSim).                                 *)

\* C19: simulate(num_years) ends after exactly num_years annual cycles: no
\* exception leaves it, while it runs the year is between the year it
\* started from and that year plus num_years, and when it has returned the
\* year is the year it started from plus num_years.
C19_SimulateRunsNumYears ==
    /\ last_call.op = "simulate" =>
          /\ raised = "none"
          /\ last_call.from <= year
          /\ year <= last_call.from + last_call.num_years
    /\ last_call.op = "simulate_returned" =>
          year = last_call.from + last_call.num_years

-----------------------------------------------------------------------------
(* Claims about migrating_or_not (SpecMigrating).                          *)

\* C23: migrating_or_not() returns only animals of the cell whose migrated
\* flag is False (an animal marked as migrated is not evaluated, whatever the
\* draw), selects an animal only when mu * fitness is strictly greater than
\* a draw, lists the herbivores before the carnivores in the order of the
\* lists, and leaves both lists, every migrated flag, age and weight as they
\* were.
C23_MigratingCandidates ==
    [][last_call'.op = "migrating_or_not" =>
          LET c == island_map.cell[FaunaCell]
              population == population_in_cell(c)
              ret == last_call'.ret
              fitness(a) == GetFitness(param[animals[a].species], animals[a].age,
                                       animals[a].weight)
              migrating_probability(a) == Mul(param[animals[a].species].mu, fitness(a))
          IN  /\ island_map' = island_map
              /\ DOMAIN animals' = DOMAIN animals
              /\ \A a \in DOMAIN animals :
                    /\ animals'[a].migrated = animals[a].migrated
                    /\ animals'[a].age = animals[a].age
                    /\ animals'[a].weight = animals[a].weight
                    /\ animals'[a].fitness =
                          IF animals[a].migrated THEN animals[a].fitness ELSE fitness(a)
              /\ ret = SelectSeq(population, LAMBDA a : a \in Range(ret))
              /\ \A a \in Range(ret) :
                    /\ animals[a].migrated = FALSE
                    /\ \E migrating_threshold \in RandomDraws :
                          migrating_probability(a) > migrating_threshold
              /\ \A a \in Range(population) \ Range(ret) :
                    \/ animals[a].migrated
                    \/ \E migrating_threshold \in RandomDraws :
                          ~(migrating_probability(a) > migrating_threshold)]_vars

\* migrating_or_not has returned a carnivore of a cell that also holds a fit
\* herbivore marked as migrated, which was not evaluated, and a herbivore
\* without weight, whose probability 0 is not greater than the draw 0.
C23_Witness ==
    LET c == island_map.cell[FaunaCell]
    IN  /\ last_call.op = "migrating_or_not"
        /\ Len(c.pop_herbivores) = 2
        /\ Len(c.pop_carnivores) = 1
        /\ last_call.ret = c.pop_carnivores
        /\ \E a, b \in Range(c.pop_herbivores) :
              /\ animals[a].migrated /\ animals[a].weight = 40 * Unit /\ animals[a].fitness = None
              /\ ~animals[b].migrated /\ animals[b].weight = 0 /\ animals[b].fitness = 0

-----------------------------------------------------------------------------
(* Claims about the state a completed annual cycle leaves (Spec).          *)

\* C26: when annual_cycle() has returned, every animal on the island has
\* migrated = False, also the ones that were relocated in the cycle, and the
\* fodder of every cell is the f_max of its landscape.
C26_YearEndsResetAndRegrown ==
    CycleEnded =>
       /\ \A a \in DOMAIN animals : animals[a].migrated = FALSE
       /\ DOMAIN animals = OnIsland
       /\ \A loc \in DOMAIN island_map.cell :
             island_map.cell[loc].fodder = CellParam(loc).f_max

\* A cycle has returned in which a herbivore and a carnivore that had been
\* on the island from its start were relocated.
C26_Witness ==
    /\ CycleEnded
    /\ \E a, b \in OnIsland :
          /\ animals[a].species = "Herbivore" /\ hist[a].moved = 1 /\ hist[a].at_start
          /\ animals[b].species = "Carnivore" /\ hist[b].moved = 1 /\ hist[b].at_start
          /\ CellOf(a) # hist[a].cell0

\* How often animal a is in a list.
Occurrences(list, a) == Len(SelectSeq(list, LAMBDA x : x = a))

\* C27: migration() only relocates: no step of it creates, loses or
\* duplicates an animal, every animal stays in the lists of exactly one cell,
\* once, in the list of its own species, and the number of herbivores and of
\* carnivores on the island stays what it was.
C27_MigrationOnlyRelocates ==
    [][pc.phase = "migration" =>
          /\ DOMAIN animals' = DOMAIN animals
          /\ OnIsland' = OnIsland
          /\ \A species \in Species :
                IslandCount(island_map'.cell, species) = IslandCount(island_map.cell, species)
          /\ \A a \in DOMAIN animals' :
                /\ animals'[a].species = animals[a].species
                /\ Cardinality(CellsOf(a)') = 1
                /\ \A loc \in CellsOf(a)' :
                      LET c == island_map'.cell[loc]
                      IN  IF animals'[a].species = "Herbivore"
                          THEN /\ Occurrences(c.pop_herbivores, a) = 1
                               /\ Occurrences(c.pop_carnivores, a) = 0
                          ELSE /\ Occurrences(c.pop_herbivores, a) = 0
                               /\ Occurrences(c.pop_carnivores, a) = 1]_vars

\* The pass has finished with a herbivore and a carnivore relocated, in
\* opposite directions.
C27_Witness ==
    /\ log.migration = "finished"
    /\ \E a, b \in OnIsland :
          /\ animals[a].species = "Herbivore" /\ hist[a].moved = 1
          /\ animals[b].species = "Carnivore" /\ hist[b].moved = 1
          /\ CellOf(a) = hist[b].cell0
          /\ CellOf(b) = hist[a].cell0

\* C28: no animal is ever in the lists of a Water cell, whatever
\* place_populations_on_island calls and annual cycles were made, and so
\* migration() never indexes the grid outside its rows and columns.
C28_NoAnimalInWater ==
    /\ \A loc \in DOMAIN island_map.cell :
          ~island_map.cell[loc].hospitable =>
             /\ island_map.cell[loc].pop_herbivores = <<>>
             /\ island_map.cell[loc].pop_carnivores = <<>>
    /\ raised # "IndexError"

\* C29: when annual_cycle() has returned, the number of carnivores on the
\* island is the number at its start plus the carnivore newborns minus the
\* carnivore deaths that get_birth_and_death reports, and the number of
\* herbivores is the number at its start plus the herbivore newborns minus
\* the herbivore deaths minus the herbivores the carnivores ate in the cycle.
C29_CountersAccountForChange ==
    CycleEnded =>
       LET birth == get_birth_and_death(island_map.cell, "birth")
           death == get_birth_and_death(island_map.cell, "death")
       IN  /\ IslandCount(island_map.cell, "Carnivore")
                 = log.count0["Carnivore"] + birth[2] - death[2]
           /\ IslandCount(island_map.cell, "Herbivore")
                 = log.count0["Herbivore"] + birth[1] - death[1] - log.eaten

\* A cycle has returned in which a herbivore was born to the two placed and
\* one of the three died.
C29_Witness ==
    /\ CycleEnded
    /\ log.count0 = [Herbivore |-> 2, Carnivore |-> 0]
    /\ get_birth_and_death(island_map.cell, "birth") = <<1, 0>>
    /\ get_birth_and_death(island_map.cell, "death") = <<1, 0>>
    /\ IslandCount(island_map.cell, "Herbivore") = 2

\* C30: the decisions of the annual cycle use the fitness computed from the
\* age and the weight the animal has at that moment: carnivores_eating sorts
\* both lists by it, every attempt of a carnivore compares the fitness the
\* carnivore has with what it has eaten before and the fitness of the
\* herbivore, and procreation, migrating_or_not and yearly_death leave in
\* animal.fitness of every animal they decided about the fitness of its age
\* and weight at the decision.
C30_DecisionsUseFreshFitness ==
    [][pc' # pc =>
          LET c == island_map.cell[Here]
              c1 == island_map'.cell[Here]
              fitness(a) == GetFitness(param[animals[a].species], animals[a].age,
                                       animals[a].weight)
              gives_birth(a, population) ==
                  LET p == param[animals[a].species]
                  IN  /\ Len(population) > 1
                      /\ animals[a].weight >= Mul(p.zeta, p.w_birth + p.sigma_birth)
          IN  /\ Method = "carnivores_eating" =>
                    /\ \A i, j \in DOMAIN c1.pop_herbivores :
                          i < j => fitness(c1.pop_herbivores[i]) <= fitness(c1.pop_herbivores[j])
                    /\ \A i, j \in DOMAIN c1.pop_carnivores :
                          i < j => fitness(c1.pop_carnivores[i]) >= fitness(c1.pop_carnivores[j])
                    /\ (c.pop_herbivores # <<>> /\ c1.pop_carnivores # <<>>) =>
                          hist'[c1.pop_carnivores[1]].attempts # <<>>
                    /\ \A x \in Range(c.pop_carnivores) :
                          LET attempts == hist'[x].attempts
                          IN  /\ Len(attempts) <= Len(c.pop_herbivores)
                              /\ \A i \in DOMAIN attempts :
                                    /\ attempts[i].fitness =
                                          GetFitness(param["Carnivore"], animals[x].age,
                                                     animals[x].weight
                                                     + GainedBefore(animals, attempts, x, i))
                                    /\ attempts[i].herbivore_fitness
                                          = fitness(attempts[i].herbivore)
              /\ Method = "procreation_herbivore" =>
                    \A a \in Range(c.pop_herbivores) :
                       gives_birth(a, c.pop_herbivores) => animals'[a].fitness = fitness(a)
              /\ Method = "procreation_carnivore" =>
                    \A a \in Range(c.pop_carnivores) :
                       gives_birth(a, c.pop_carnivores) => animals'[a].fitness = fitness(a)
              /\ (pc.phase = "migration" /\ pc.step = 1) =>
                    \A a \in Range(population_in_cell(c)) :
                       animals[a].migrated = FALSE => animals'[a].fitness = fitness(a)
              /\ Method = "yearly_death" =>
                    \A a \in Range(population_in_cell(c1)) :
                       animals'[a].fitness = fitness(a)]_vars

\* The migration pass has finished after it decided about a herbivore that
\* had eaten and then given birth in the same cycle: the fitness it used is
\* the one of the weight left after the birth, less than the one the birth
\* decision had used and stored.
C30_Witness ==
    /\ log.migration = "finished"
    /\ pc = [phase |-> "second_loop", cell |-> 1, step |-> 1]
    /\ \E a \in OnIsland :
          LET p == param["Herbivore"]
          IN  /\ animals[a].species = "Herbivore"
              /\ hist[a].at_start
              /\ hist[a].evaluated = 1
              /\ animals[a].weight < 40 * Unit + Mul(p.beta, p.F)
              /\ animals[a].fitness = GetFitness(p, animals[a].age, animals[a].weight)
              /\ animals[a].fitness
                    < GetFitness(p, animals[a].age, 40 * Unit + Mul(p.beta, p.F))
              /\ \E b \in OnIsland : ~hist[b].at_start

====
